---- MODULE Spec2Model ----
(***************************************************************************)
(* mcp-brasil: five adapters (PNCP, Portal da Transparencia, CNPJ, BCB,    *)
(* IBGE) that turn typed parameters into one HTTP GET each and decode the  *)
(* answer into an envelope, and the MCP tool handlers in front of them.    *)
(*                                                                         *)
(* One invocation at a time is followed from the call (parameter          *)
(* normalisation, validation, request construction, httpClient.Do) over    *)
(* the upstream's answer (status and body, a transport error or a body     *)
(* read error) to the returned (envelope, error) pair.                     *)
(*                                                                         *)
(* Go strings are TLA+ strings; the CNPJ argument, which the code walks    *)
(* rune by rune, is a sequence of one-character strings.  A nil pointer    *)
(* or nil error is the empty sequence, a non-nil one a one-element         *)
(* sequence.                                                               *)
(***************************************************************************)
EXTENDS Integers, Sequences, FiniteSets, TLC

(* The field names of the records of this module.  TLC keeps the fields of a  *)
(* record in the order in which it first met their names and sorts each new   *)
(* record into that order; every record below lists its fields in the order  *)
(* given here, so that no record is ever reordered while it is read.          *)
FieldOrder ==
    [ method |-> 1, url |-> 2, query |-> 3, header |-> 4, kind |-> 5,
      env |-> 6, pregao_eletronico |-> 7, concorrencia_eletronica |-> 8,
      concorrencia |-> 9, concurso |-> 10, leilao_eletronico |-> 11,
      leilao |-> 12, dialogo_competitivo |-> 13, credenciamento |-> 14,
      Accept |-> 15, Contracts |-> 16, Registrations |-> 17, year |-> 18,
      month |-> 19, day |-> 20, apiKey |-> 21, baseURL |-> 22,
      orgaoCode |-> 23, Servidores |-> 24, cpf |-> 25, mesAno |-> 26,
      CPF |-> 27, Remuneracao |-> 28, MesAno |-> 29, uf |-> 30,
      Convenios |-> 31, Empresas |-> 32, val |-> 33, formattedCNPJ |-> 34,
      selic |-> 35, selic_monthly |-> 36, ipca |-> 37, igpm |-> 38, cdi |-> 39,
      seriesCode |-> 40, ok |-> 41, indicator |-> 42, Indicator |-> 43,
      Data |-> 44, currency |-> 45, date |-> 46, Currency |-> 47, Date |-> 48,
      Rates |-> 49, Stats |-> 50, States |-> 51, stateID |-> 52,
      Municipalities |-> 53, Total |-> 54, Page |-> 55, PageSize |-> 56,
      OrgaoCode |-> 57, OrgaoName |-> 58, UF |-> 59, StateID |-> 60,
      Source |-> 61, type |-> 62, str |-> 63, num |-> 64, isError |-> 65,
      text |-> 66, early |-> 67, nome |-> 68, now |-> 69, cnpj |-> 70,
      lastN |-> 71, startDate |-> 72, endDate |-> 73, modalityCode |-> 74,
      tool |-> 75, toolArgs |-> 76, op |-> 77, args |-> 78, start |-> 79,
      locationID |-> 80, mes_ano |-> 81, last_n |-> 82, start_date |-> 83,
      end_date |-> 84, state |-> 85, modality |-> 86, page |-> 87,
      pageSize |-> 88, page_size |-> 89, status |-> 90, body |-> 91,
      err |-> 92, items |-> 93, total |-> 94, frame |-> 95, req |-> 96,
      cause |-> 97, resultados |-> 98, first |-> 99, series |-> 100,
      element |-> 101, localidade |-> 102, serie |-> 103, years |-> 104,
      Location |-> 105, Year |-> 106, Population |-> 107, pc |-> 108,
      requests |-> 109, response |-> 110, result |-> 111, Modalities |-> 112,
      KnownOrgaos |-> 113, orgaos |-> 114, codigo |-> 115, orgao_code |-> 116,
      state_id |-> 117, location_id |-> 118 ]

VARIABLES
    apiKey,     \* transparencia.Client.apiKey, set once by NewClient
    pc,         \* "idle", "waiting" (inside httpClient.Do / io.ReadAll), "done",
                \* "panicked" (a run-time panic has ended the call)
    call,       \* the invocation in progress: adapter operation, arguments, tool
    frame,      \* the operation's local variables after normalisation
    requests,   \* the outbound requests issued by the invocation, in order
    response,   \* what came back from the upstream, once it has
    result,     \* the (envelope, error) pair returned by the adapter operation
    reply,      \* the *mcp.CallToolResult of the tool handler, if a tool was called
    inflight,   \* the calls of the concurrent callers, each with its own locals
    tables,     \* the maps the package variables Modalities and KnownOrgaos refer to
    held        \* what the caller holds from its last ListModalities or ListOrgaos

vars ==
    <<apiKey, pc, call, frame, requests, response, result, reply, inflight, tables, held>>

----------------------------------------------------------------------------
(* Bounds of the model *)

\* page arguments range over -1 .. MaxPage
MaxPage == 2
\* page sizes above the upper limit 500 range over 501 .. 500 + MaxOverPageSize
MaxOverPageSize == 1
\* CNPJ arguments hold 0 .. MaxDigits digit characters
MaxDigits == 15
\* a decoded list holds 0 .. MaxItems items
MaxItems == 1
\* a population series holds 0 .. MaxYears years
MaxYears == 2
\* 1 .. MaxCallers goroutines call the adapters at the same time
MaxCallers == 2

----------------------------------------------------------------------------
(* Go values *)

Nil == << >>
Some(x) == <<x>>

\* fmt.Sprintf("%d", n)
FormatInt(n) == ToString(n)

\* http.StatusOK, http.StatusNotFound
StatusOK == 200
StatusNotFound == 404

\* url.Values{}
EmptyValues == [k \in {} |-> ""]

\* url.Values.Set
SetValue(params, key, value) ==
    [k \in DOMAIN params \cup {key} |-> IF k = key THEN value ELSE params[k]]

\* Every query key of the repository in url.Values.Encode's order (sorted by key)
KeyOrder ==
    << "cnpj", "codigoModalidadeContratacao", "codigoOrgao", "dataFinal",
       "dataInicial", "mesAno", "nome", "pagina", "tamanhoPagina", "uf" >>

\* url.QueryEscape on the argument values of the model: the space of "ana lima"
\* becomes "+", the "&" and "=" of "a&b=c" become "%26" and "%3D" and the "/" of
\* a month "MM/YYYY" becomes "%2F"; every other value that reaches it is made of
\* unreserved characters
QueryEscape(s) ==
    LET MM(m) == (IF m < 10 THEN "0" ELSE "") \o ToString(m)
        months == {<<m, y>> \in (1..12) \X (2023..2024) : s = MM(m) \o "/" \o ToString(y)}
    IN  IF s = "ana lima" THEN "ana+lima"
        ELSE IF s = "a&b=c" THEN "a%26b%3Dc"
        ELSE IF months # {}
        THEN LET t == CHOOSE t \in months : TRUE
             IN  MM(t[1]) \o "%2F" \o ToString(t[2])
        ELSE s

\* url.Values.Encode: "key=value" pairs sorted by key, values escaped.  The query
\* string is kept as the sequence of its <<key, escaped value>> pairs.
Encode(params) ==
    LET keys == SelectSeq(KeyOrder, LAMBDA k : k \in DOMAIN params)
    IN  [i \in 1..Len(keys) |-> <<keys[i], QueryEscape(params[keys[i]])>>]

\* A request handed to httpClient.Do: the URL up to the query string, the encoded
\* query (empty when the URL was formatted as one string) and the headers
Request(url, query, header) ==
    [method |-> "GET", url |-> url, query |-> query, header |-> header]

(* Response bodies of the model: a text that is not JSON, JSON arrays of 0 ..   *)
(* MaxItems objects, and a JSON object with a "data" array, a "totalRegistros" *)
(* and a "source" field.                                                       *)
RECURSIVE ArrayItems(_)
ArrayItems(n) ==
    IF n = 0 THEN ""
    ELSE (IF n = 1 THEN "" ELSE ArrayItems(n - 1) \o ",") \o "{\"id\":" \o ToString(n) \o "}"

ArrayBody(n) == "[" \o ArrayItems(n) \o "]"

ObjectBody == "{\"data\":[{\"id\":1}],\"totalRegistros\":7,\"source\":\"upstream\"}"

Bodies == {"maintenance", ObjectBody} \cup {ArrayBody(n) : n \in 0..MaxItems}

\* What encoding/json reads in a body of the model: the JSON value's kind, the
\* items of the array (of the "data" array of the object) and "totalRegistros"
ParseJSON(body) ==
    IF \E n \in 0..MaxItems : body = ArrayBody(n)
    THEN LET n == CHOOSE m \in 0..MaxItems : body = ArrayBody(m)
         IN  [kind |-> "array", items |-> [i \in 1..n |-> i], total |-> 0]
    ELSE IF body = ObjectBody
    THEN [kind |-> "object", items |-> <<1>>, total |-> 7]
    ELSE [kind |-> "invalid", items |-> << >>, total |-> 0]

\* json.Unmarshal(body, &slice): fails unless the body is a JSON array
UnmarshalSlice(body) ==
    LET v == ParseJSON(body)
    IN  IF v.kind = "array"
        THEN [err |-> Nil, items |-> v.items]
        ELSE [err |-> Some("json: cannot unmarshal"), items |-> << >>]

\* json.Unmarshal(body, &struct): fails unless the body is a JSON object
UnmarshalStruct(body) ==
    LET v == ParseJSON(body)
    IN  IF v.kind = "object"
        THEN [err |-> Nil, items |-> v.items, total |-> v.total]
        ELSE [err |-> Some("json: cannot unmarshal"), items |-> << >>, total |-> 0]

\* Mutant: a failure comes with the envelope allocated so far
Failure_withEnvelope(msg) == [env |-> Some(EmptyValues), err |-> Some(msg)]

\* A returned (nil, err) and a returned (envelope, nil)
Failure(msg) == [env |-> Nil, err |-> Some(msg)]
Success(envelope) == [env |-> Some(envelope), err |-> Nil]

----------------------------------------------------------------------------
(* Argument values the callers of the model supply *)

Pages == -1..MaxPage
PageSizes == {0, 1, 9, 10, 11, 499, 500} \cup (501..(500 + MaxOverPageSize))
Statuses == {200, 201, 404, 500, 503}
TransportErrors ==
    {"dial tcp: connection refused", "context canceled", "context deadline exceeded"}
ReadErrors == {"unexpected EOF", "context canceled", "context deadline exceeded"}

Strings == {"", "SP"}

\* What an operation hands back at httpClient.Do (a request is on its way) or
\* before it (a validation failure)
Started(locals, req) == [err |-> Nil, frame |-> locals, req |-> Some(req)]
Rejected(msg) == [err |-> Some(msg), frame |-> EmptyValues, req |-> Nil]

----------------------------------------------------------------------------
(* package pncp *)

pncp_BaseURL == "https://pncp.gov.br/api/consulta/v1"

\* Modalities
Modalities ==
    [ pregao_eletronico |-> 6, concorrencia_eletronica |-> 1, concorrencia |-> 2,
      concurso |-> 3, leilao_eletronico |-> 4, leilao |-> 5,
      dialogo_competitivo |-> 7, credenciamento |-> 8 ]

\* Client.doRequest up to httpClient.Do: URL and headers of the request
pncp_doRequest(endpoint, params) ==
    Request(pncp_BaseURL \o endpoint,
            IF Cardinality(DOMAIN params) > 0 THEN Encode(params) ELSE << >>,
            [Accept |-> "application/json"])

\* Client.doRequest after io.ReadAll: the (body, error) pair it returns
pncp_doRequest_response(status, body) ==
    IF status # StatusOK
    THEN [body |-> Nil,
          err |-> Some("API error (status " \o FormatInt(status) \o "): " \o body)]
    ELSE [body |-> Some(body), err |-> Nil]

\* Mutant: the upper limit is not applied
pncp_pageSize_unclamped(pageSize) == IF pageSize < 10 THEN 10 ELSE pageSize

\* The page size both searches use: pageSize after the first if/else-if
pncp_pageSize(pageSize) ==
    IF pageSize < 10 THEN 10
    ELSE IF pageSize > 500 THEN 500
    ELSE pageSize

\* The page both searches use: page after "if page < 1"
pncp_page(page) == IF page < 1 THEN 1 ELSE page

\* The query parameters of SearchContracts
pncp_SearchContracts_params(startDate, endDate, modalityCode, state, page, pageSize) ==
    LET p1 == SetValue(EmptyValues, "dataInicial", startDate)
        p2 == SetValue(p1, "dataFinal", endDate)
        p3 == SetValue(p2, "codigoModalidadeContratacao", FormatInt(modalityCode))
        p4 == SetValue(p3, "tamanhoPagina", FormatInt(pageSize))
        p5 == SetValue(p4, "pagina", FormatInt(page))
    IN  IF state # "" THEN SetValue(p5, "uf", state) ELSE p5

\* Client.SearchContracts up to the request
pncp_SearchContracts(startDate, endDate, modalityCode, state, page, pageSize) ==
    LET pageSize1 == pncp_pageSize(pageSize)
        page1 == pncp_page(page)
        modalityCode1 == IF modalityCode = 0 THEN 6 ELSE modalityCode
        params == pncp_SearchContracts_params(startDate, endDate, modalityCode1,
                                              state, page1, pageSize1)
    IN  Started([page |-> page1, pageSize |-> pageSize1],
                pncp_doRequest("/contratacoes/publicacao", params))

\* Client.SearchContracts from the response on
pncp_SearchContracts_return(locals, status, body) ==
    LET got == pncp_doRequest_response(status, body)
        parsed == UnmarshalStruct(got.body[1])
    IN  IF got.err # Nil THEN Failure(got.err[1])
        ELSE IF parsed.err # Nil THEN Failure("parsing response: " \o parsed.err[1])
        ELSE Success([Contracts |-> parsed.items, Total |-> parsed.total,
                      Page |-> locals.page, PageSize |-> locals.pageSize,
                      Source |-> "pncp_api"])

\* The query parameters of SearchPriceRegistrations
pncp_SearchPriceRegistrations_params(state, page, pageSize) ==
    LET p1 == SetValue(EmptyValues, "tamanhoPagina", FormatInt(pageSize))
        p2 == SetValue(p1, "pagina", FormatInt(page))
    IN  IF state # "" THEN SetValue(p2, "uf", state) ELSE p2

\* Client.SearchPriceRegistrations up to the request
pncp_SearchPriceRegistrations(state, page, pageSize) ==
    LET pageSize1 == pncp_pageSize(pageSize)
        page1 == pncp_page(page)
        params == pncp_SearchPriceRegistrations_params(state, page1, pageSize1)
    IN  Started([page |-> page1, pageSize |-> pageSize1],
                pncp_doRequest("/atas-registro-preco", params))

\* Mutant: Total is taken from the body's "totalRegistros"
pncp_SearchPriceRegistrations_return_upstreamTotal(locals, status, body) ==
    LET got == pncp_doRequest_response(status, body)
        parsed == UnmarshalStruct(got.body[1])
    IN  IF got.err # Nil THEN Failure(got.err[1])
        ELSE IF parsed.err # Nil THEN Failure("parsing response: " \o parsed.err[1])
        ELSE Success([Registrations |-> parsed.items, Total |-> parsed.total,
                      Page |-> locals.page, Source |-> "pncp_api"])

\* Client.SearchPriceRegistrations from the response on
pncp_SearchPriceRegistrations_return(locals, status, body) ==
    LET got == pncp_doRequest_response(status, body)
        parsed == UnmarshalStruct(got.body[1])
    IN  IF got.err # Nil THEN Failure(got.err[1])
        ELSE IF parsed.err # Nil THEN Failure("parsing response: " \o parsed.err[1])
        ELSE Success([Registrations |-> parsed.items, Total |-> Len(parsed.items),
                      Page |-> locals.page, Source |-> "pncp_api"])

----------------------------------------------------------------------------
(* package time, as far as the adapters use it *)

IsLeap(year) == (year % 4 = 0 /\ year % 100 # 0) \/ year % 400 = 0

DaysIn(year, month) ==
    IF month = 2 THEN (IF IsLeap(year) THEN 29 ELSE 28)
    ELSE IF month \in {4, 6, 9, 11} THEN 30 ELSE 31

\* time.Time.AddDate(0, -1, 0): the month is decremented and the date normalised
\* as time.Date does, a day past the end of the month running into the next one
AddDateMinusOneMonth(t) ==
    LET y == IF t.month = 1 THEN t.year - 1 ELSE t.year
        m == IF t.month = 1 THEN 12 ELSE t.month - 1
    IN  IF t.day <= DaysIn(y, m) THEN [year |-> y, month |-> m, day |-> t.day]
        ELSE [year |-> IF m = 12 THEN y + 1 ELSE y,
              month |-> IF m = 12 THEN 1 ELSE m + 1,
              day |-> t.day - DaysIn(y, m)]

TwoDigits(n) == IF n < 10 THEN "0" \o ToString(n) ELSE ToString(n)

\* time.Time.Format("01/2006")
FormatMonthYear(t) == TwoDigits(t.month) \o "/" \o ToString(t.year)

\* time.Time.Format("01-02-2006")
FormatMonthDayYear(t) ==
    TwoDigits(t.month) \o "-" \o TwoDigits(t.day) \o "-" \o ToString(t.year)

\* The values time.Now() takes in the model
Clock ==
    { [year |-> 2024, month |-> 1, day |-> 15],
      [year |-> 2024, month |-> 3, day |-> 31],
      [year |-> 2024, month |-> 6, day |-> 9] }

----------------------------------------------------------------------------
(* package transparencia *)

transparencia_BaseURL == "https://api.portaldatransparencia.gov.br/api-de-dados"

\* KnownOrgaos
KnownOrgaos ==
    [c \in {"36000", "26000", "25000", "30000", "52000", "35000", "44000"} |->
        CASE c = "36000" -> "Ministério da Saúde"
          [] c = "26000" -> "Ministério da Educação"
          [] c = "25000" -> "Ministério da Economia"
          [] c = "30000" -> "Ministério da Justiça"
          [] c = "52000" -> "Ministério da Defesa"
          [] c = "35000" -> "Ministério das Relações Exteriores"
          [] c = "44000" -> "Ministério do Meio Ambiente"]

\* NewClient
transparencia_NewClient(key) == [apiKey |-> key, baseURL |-> transparencia_BaseURL]

\* Mutant: the key header is set whether or not a key is configured
transparencia_doRequest_blankKey(c, endpoint, params) ==
    LET h == [k \in {"Accept", "User-Agent"} |->
                 IF k = "Accept" THEN "application/json" ELSE "MCP-Brasil/1.0 (Go)"]
    IN  Request(c.baseURL \o endpoint,
                IF Cardinality(DOMAIN params) > 0 THEN Encode(params) ELSE << >>,
                SetValue(h, "chave-api-dados", c.apiKey))

\* Client.doRequest up to httpClient.Do: URL and headers of the request
transparencia_doRequest(c, endpoint, params) ==
    LET h == [k \in {"Accept", "User-Agent"} |->
                 IF k = "Accept" THEN "application/json" ELSE "MCP-Brasil/1.0 (Go)"]
    IN  Request(c.baseURL \o endpoint,
                IF Cardinality(DOMAIN params) > 0 THEN Encode(params) ELSE << >>,
                IF c.apiKey # "" THEN SetValue(h, "chave-api-dados", c.apiKey) ELSE h)

\* Client.doRequest after io.ReadAll: the (body, error) pair it returns
transparencia_doRequest_response(status, body) ==
    IF status # StatusOK
    THEN [body |-> Nil,
          err |-> Some("API error (status " \o FormatInt(status) \o "): " \o body)]
    ELSE [body |-> Some(body), err |-> Nil]

\* The page size the four searches use: pageSize after "if pageSize < 1 || pageSize > 500"
transparencia_pageSize(pageSize) ==
    IF pageSize < 1 \/ pageSize > 500 THEN 100 ELSE pageSize

\* Mutant: page 0 is let through
transparencia_page_fromZero(page) == IF page < 0 THEN 1 ELSE page

\* The page the four searches use: page after "if page < 1"
transparencia_page(page) == IF page < 1 THEN 1 ELSE page

\* The three parameters every search sets: its filter, pagina and tamanhoPagina
transparencia_params(key, value, page, pageSize) ==
    LET p1 == SetValue(EmptyValues, key, value)
        p2 == SetValue(p1, "pagina", FormatInt(page))
    IN  SetValue(p2, "tamanhoPagina", FormatInt(pageSize))

\* What the four searches do with the response: the decoded list or the failure
transparencia_decode(status, body) ==
    LET got == transparencia_doRequest_response(status, body)
        parsed == UnmarshalSlice(got.body[1])
    IN  IF got.err # Nil THEN [err |-> got.err, items |-> << >>]
        ELSE IF parsed.err # Nil
        THEN [err |-> Some("parsing response: " \o parsed.err[1]), items |-> << >>]
        ELSE [err |-> Nil, items |-> parsed.items]

\* Client.SearchContracts up to the request
transparencia_SearchContracts(c, orgaoCode, page, pageSize) ==
    LET orgaoCode1 == IF orgaoCode = "" THEN "36000" ELSE orgaoCode
        page1 == transparencia_page(page)
        pageSize1 == transparencia_pageSize(pageSize)
    IN  Started([orgaoCode |-> orgaoCode1, page |-> page1, pageSize |-> pageSize1],
                transparencia_doRequest(c, "/contratos",
                    transparencia_params("codigoOrgao", orgaoCode1, page1, pageSize1)))

\* Client.SearchContracts from the response on
transparencia_SearchContracts_return(locals, status, body) ==
    LET got == transparencia_decode(status, body)
        orgaoName == IF locals.orgaoCode \in DOMAIN KnownOrgaos
                     THEN KnownOrgaos[locals.orgaoCode] ELSE ""
    IN  IF got.err # Nil THEN Failure(got.err[1])
        ELSE Success([Contracts |-> got.items, Total |-> Len(got.items),
                      Page |-> locals.page, PageSize |-> locals.pageSize,
                      OrgaoCode |-> locals.orgaoCode,
                      OrgaoName |-> IF orgaoName = "" THEN "Orgao Desconhecido"
                                    ELSE orgaoName,
                      Source |-> "portal_transparencia_api"])

\* Mutant: the name is not checked
transparencia_SearchServidores_unchecked(c, nome, page, pageSize) ==
    LET page1 == transparencia_page(page)
        pageSize1 == transparencia_pageSize(pageSize)
    IN  Started([page |-> page1, pageSize |-> pageSize1],
                transparencia_doRequest(c, "/servidores",
                    transparencia_params("nome", nome, page1, pageSize1)))

\* Client.SearchServidores up to the request
transparencia_SearchServidores(c, nome, page, pageSize) ==
    LET page1 == transparencia_page(page)
        pageSize1 == transparencia_pageSize(pageSize)
    IN  IF nome = "" THEN Rejected("nome is required")
        ELSE Started([page |-> page1, pageSize |-> pageSize1],
                     transparencia_doRequest(c, "/servidores",
                         transparencia_params("nome", nome, page1, pageSize1)))

\* Client.SearchServidores from the response on
transparencia_SearchServidores_return(locals, status, body) ==
    LET got == transparencia_decode(status, body)
    IN  IF got.err # Nil THEN Failure(got.err[1])
        ELSE Success([Servidores |-> got.items, Total |-> Len(got.items),
                      Page |-> locals.page, PageSize |-> locals.pageSize,
                      Source |-> "portal_transparencia_api"])

\* Client.GetServidorRemuneracao up to the request; now is time.Now()
transparencia_GetServidorRemuneracao(c, cpf, mesAno, now) ==
    LET mesAno1 == IF mesAno = "" THEN FormatMonthYear(AddDateMinusOneMonth(now))
                   ELSE mesAno
    IN  IF cpf = "" THEN Rejected("cpf is required")
        ELSE Started([cpf |-> cpf, mesAno |-> mesAno1],
                     transparencia_doRequest(c, "/servidores/" \o cpf \o "/remuneracao",
                         SetValue(EmptyValues, "mesAno", mesAno1)))

\* Client.GetServidorRemuneracao from the response on
transparencia_GetServidorRemuneracao_return(locals, status, body) ==
    LET got == transparencia_decode(status, body)
    IN  IF got.err # Nil THEN Failure(got.err[1])
        ELSE Success([CPF |-> locals.cpf, Remuneracao |-> got.items,
                      MesAno |-> locals.mesAno, Source |-> "portal_transparencia_api"])

\* Mutant: an empty uf is sent as it is
transparencia_SearchConvenios_noDefault(c, uf, page, pageSize) ==
    LET page1 == transparencia_page(page)
        pageSize1 == transparencia_pageSize(pageSize)
    IN  Started([uf |-> uf, page |-> page1, pageSize |-> pageSize1],
                transparencia_doRequest(c, "/convenios",
                    transparencia_params("uf", uf, page1, pageSize1)))

\* Client.SearchConvenios up to the request
transparencia_SearchConvenios(c, uf, page, pageSize) ==
    LET uf1 == IF uf = "" THEN "MG" ELSE uf
        page1 == transparencia_page(page)
        pageSize1 == transparencia_pageSize(pageSize)
    IN  Started([uf |-> uf1, page |-> page1, pageSize |-> pageSize1],
                transparencia_doRequest(c, "/convenios",
                    transparencia_params("uf", uf1, page1, pageSize1)))

\* Client.SearchConvenios from the response on
transparencia_SearchConvenios_return(locals, status, body) ==
    LET got == transparencia_decode(status, body)
    IN  IF got.err # Nil THEN Failure(got.err[1])
        ELSE Success([Convenios |-> got.items, Total |-> Len(got.items),
                      Page |-> locals.page, PageSize |-> locals.pageSize,
                      UF |-> locals.uf, Source |-> "portal_transparencia_api"])

\* The query parameters of SearchCEIS
transparencia_SearchCEIS_params(cnpj, page, pageSize) ==
    LET p0 == IF cnpj # "" THEN SetValue(EmptyValues, "cnpj", cnpj) ELSE EmptyValues
        p1 == SetValue(p0, "pagina", FormatInt(page))
    IN  SetValue(p1, "tamanhoPagina", FormatInt(pageSize))

\* Client.SearchCEIS up to the request
transparencia_SearchCEIS(c, cnpj, page, pageSize) ==
    LET page1 == transparencia_page(page)
        pageSize1 == transparencia_pageSize(pageSize)
    IN  Started([page |-> page1, pageSize |-> pageSize1],
                transparencia_doRequest(c, "/ceis",
                    transparencia_SearchCEIS_params(cnpj, page1, pageSize1)))

\* Client.SearchCEIS from the response on
transparencia_SearchCEIS_return(locals, status, body) ==
    LET got == transparencia_decode(status, body)
    IN  IF got.err # Nil THEN Failure(got.err[1])
        ELSE Success([Empresas |-> got.items, Total |-> Len(got.items),
                      Page |-> locals.page, PageSize |-> locals.pageSize,
                      Source |-> "portal_transparencia_api"])

----------------------------------------------------------------------------
(* package cnpj *)

cnpj_BaseURL == "https://minhareceita.org"

\* The runes '0' .. '9'
DigitRunes == {"0", "1", "2", "3", "4", "5", "6", "7", "8", "9"}

\* Mutant: the runes of the canonical punctuation are kept with the digits
RECURSIVE MapDigits_keepsPunctuation(_)
MapDigits_keepsPunctuation(s) ==
    IF s = << >> THEN << >>
    ELSE (IF Head(s) \in DigitRunes \cup {".", "/", "-"} THEN <<Head(s)>> ELSE << >>)
         \o MapDigits_keepsPunctuation(Tail(s))

\* strings.Map with formatCNPJ's function: every rune outside '0' .. '9' is dropped
RECURSIVE MapDigits(_)
MapDigits(s) ==
    IF s = << >> THEN << >>
    ELSE (IF Head(s) \in DigitRunes THEN <<Head(s)>> ELSE << >>) \o MapDigits(Tail(s))

\* A sequence of runes as one Go string
RECURSIVE Join(_)
Join(s) == IF s = << >> THEN "" ELSE Head(s) \o Join(Tail(s))

\* Mutant: more than 14 digits are accepted and the first 14 used
formatCNPJ_atLeast14(cnpj) ==
    LET digits == MapDigits(cnpj)
    IN  IF Len(digits) < 14
        THEN [val |-> << >>,
              err |-> Some("invalid CNPJ: must have 14 digits, got "
                           \o FormatInt(Len(digits)))]
        ELSE [val |-> SubSeq(digits, 1, 2) \o <<".">> \o SubSeq(digits, 3, 5) \o <<".">>
                      \o SubSeq(digits, 6, 8) \o <<"/">> \o SubSeq(digits, 9, 12)
                      \o <<"-">> \o SubSeq(digits, 13, 14),
              err |-> Nil]

\* formatCNPJ: the (string, error) pair it returns
formatCNPJ(cnpj) ==
    LET digits == MapDigits(cnpj)
    IN  IF Len(digits) # 14
        THEN [val |-> << >>,
              err |-> Some("invalid CNPJ: must have 14 digits, got "
                           \o FormatInt(Len(digits)))]
        ELSE [val |-> SubSeq(digits, 1, 2) \o <<".">> \o SubSeq(digits, 3, 5) \o <<".">>
                      \o SubSeq(digits, 6, 8) \o <<"/">> \o SubSeq(digits, 9, 12)
                      \o <<"-">> \o SubSeq(digits, 13, 14),
              err |-> Nil]

\* Client.GetCNPJ up to httpClient.Do
cnpj_GetCNPJ(cnpj) ==
    LET formatted == formatCNPJ(cnpj)
        formattedCNPJ == Join(formatted.val)
    IN  IF formatted.err # Nil THEN Rejected(formatted.err[1])
        ELSE Started([formattedCNPJ |-> formattedCNPJ],
                     Request(cnpj_BaseURL \o "/" \o formattedCNPJ, << >>,
                             [Accept |-> "application/json"]))

\* Mutant: a 404 is treated like every other status
cnpj_GetCNPJ_status_generic(locals, status, body) ==
    IF status # StatusOK
    THEN Some("API error (status " \o FormatInt(status) \o "): " \o body)
    ELSE Nil

\* Client.GetCNPJ: what the status of the response decides
cnpj_GetCNPJ_status(locals, status, body) ==
    IF status = StatusNotFound THEN Some("CNPJ not found: " \o locals.formattedCNPJ)
    ELSE IF status # StatusOK
    THEN Some("API error (status " \o FormatInt(status) \o "): " \o body)
    ELSE Nil

\* What json.Unmarshal stores in CNPJData.Source: the body's "source" field
DecodedSource(body) == IF body = ObjectBody THEN "upstream" ELSE ""

\* Mutant: the decoded data is returned as it is
cnpj_GetCNPJ_return_asDecoded(locals, status, body) ==
    LET failed == cnpj_GetCNPJ_status(locals, status, body)
        parsed == UnmarshalStruct(body)
        data == [Data |-> parsed.items, Source |-> DecodedSource(body)]
    IN  IF failed # Nil THEN Failure(failed[1])
        ELSE IF parsed.err # Nil THEN Failure("parsing response: " \o parsed.err[1])
        ELSE Success(data)

\* Client.GetCNPJ from the response on
cnpj_GetCNPJ_return(locals, status, body) ==
    LET failed == cnpj_GetCNPJ_status(locals, status, body)
        parsed == UnmarshalStruct(body)
        data == [Data |-> parsed.items, Source |-> DecodedSource(body)]
    IN  IF failed # Nil THEN Failure(failed[1])
        ELSE IF parsed.err # Nil THEN Failure("parsing response: " \o parsed.err[1])
        ELSE Success([data EXCEPT !.Source = "minhareceita_api"])

----------------------------------------------------------------------------
(* package bcb *)

SGSURL == "https://api.bcb.gov.br/dados/serie/bcdata.sgs"
OlindaURL == "https://olinda.bcb.gov.br/olinda/servico"

\* Mutant: the codes of the two daily series are exchanged
SeriesCodes_swapped ==
    [selic |-> 12, selic_monthly |-> 4390, ipca |-> 433, igpm |-> 189, cdi |-> 11]

\* SeriesCodes
SeriesCodes == [selic |-> 11, selic_monthly |-> 4390, ipca |-> 433, igpm |-> 189, cdi |-> 12]

\* Client.doRequest up to httpClient.Do
bcb_doRequest(url) == Request(url, << >>, [Accept |-> "application/json"])

\* Mutant: the failure leaves the body out
bcb_doRequest_response_noBody(status, body) ==
    IF status # StatusOK
    THEN [body |-> Nil, err |-> Some("API error (status " \o FormatInt(status) \o ")")]
    ELSE [body |-> Some(body), err |-> Nil]

\* Client.doRequest after io.ReadAll: the (body, error) pair it returns
bcb_doRequest_response(status, body) ==
    IF status # StatusOK
    THEN [body |-> Nil,
          err |-> Some("API error (status " \o FormatInt(status) \o "): " \o body)]
    ELSE [body |-> Some(body), err |-> Nil]

\* Client.GetIndicator: the map lookup, (seriesCode, ok)
bcb_seriesCode(indicator) ==
    IF indicator \in DOMAIN SeriesCodes
    THEN [seriesCode |-> SeriesCodes[indicator], ok |-> TRUE]
    ELSE [seriesCode |-> 0, ok |-> FALSE]

\* Mutant: lastN goes into the URL as it was given
bcb_GetIndicator_noDefault(indicator, lastN) ==
    LET found == bcb_seriesCode(indicator)
    IN  IF ~found.ok
        THEN Rejected("unknown indicator: " \o indicator
                      \o ". Available: selic, selic_monthly, ipca, igpm, cdi")
        ELSE Started([indicator |-> indicator],
                     bcb_doRequest(SGSURL \o "." \o FormatInt(found.seriesCode)
                                   \o "/dados/ultimos/" \o FormatInt(lastN)
                                   \o "?formato=json"))

\* Client.GetIndicator up to the request
bcb_GetIndicator(indicator, lastN) ==
    LET found == bcb_seriesCode(indicator)
        lastN1 == IF lastN <= 0 THEN 30 ELSE lastN
    IN  IF ~found.ok
        THEN Rejected("unknown indicator: " \o indicator
                      \o ". Available: selic, selic_monthly, ipca, igpm, cdi")
        ELSE Started([indicator |-> indicator],
                     bcb_doRequest(SGSURL \o "." \o FormatInt(found.seriesCode)
                                   \o "/dados/ultimos/" \o FormatInt(lastN1)
                                   \o "?formato=json"))

\* Client.GetIndicator from the response on
bcb_GetIndicator_return(locals, status, body) ==
    LET got == bcb_doRequest_response(status, body)
        parsed == UnmarshalSlice(got.body[1])
    IN  IF got.err # Nil THEN Failure(got.err[1])
        ELSE IF parsed.err # Nil THEN Failure("parsing response: " \o parsed.err[1])
        ELSE Success([Indicator |-> locals.indicator, Data |-> parsed.items,
                      Total |-> Len(parsed.items), Source |-> "bcb_api"])

\* Client.GetSELIC, Client.GetIPCA
bcb_GetSELIC(lastN) == bcb_GetIndicator("selic", lastN)
bcb_GetIPCA(lastN) == bcb_GetIndicator("ipca", lastN)

\* Mutant: an empty date defaults to the day-first form DD-MM-YYYY
bcb_GetExchangeRate_dayFirst(currency, date, now) ==
    LET currency1 == IF currency = "" THEN "USD" ELSE currency
        date1 == IF date = ""
                 THEN TwoDigits(now.day) \o "-" \o TwoDigits(now.month) \o "-"
                      \o ToString(now.year)
                 ELSE date
    IN  Started([currency |-> currency1, date |-> date1],
                bcb_doRequest(OlindaURL
                    \o "/PTAX/versao/v1/odata/CotacaoMoedaDia(moeda=@moeda,dataCotacao=@dataCotacao)?@moeda='"
                    \o currency1 \o "'&@dataCotacao='" \o date1 \o "'&$format=json"))

\* Client.GetExchangeRate up to the request; now is time.Now()
bcb_GetExchangeRate(currency, date, now) ==
    LET currency1 == IF currency = "" THEN "USD" ELSE currency
        date1 == IF date = "" THEN FormatMonthDayYear(now) ELSE date
    IN  Started([currency |-> currency1, date |-> date1],
                bcb_doRequest(OlindaURL
                    \o "/PTAX/versao/v1/odata/CotacaoMoedaDia(moeda=@moeda,dataCotacao=@dataCotacao)?@moeda='"
                    \o currency1 \o "'&@dataCotacao='" \o date1 \o "'&$format=json"))

\* Client.GetExchangeRate from the response on
bcb_GetExchangeRate_return(locals, status, body) ==
    LET got == bcb_doRequest_response(status, body)
        parsed == UnmarshalStruct(got.body[1])
    IN  IF got.err # Nil THEN Failure(got.err[1])
        ELSE IF parsed.err # Nil THEN Failure("parsing response: " \o parsed.err[1])
        ELSE Success([Currency |-> locals.currency, Date |-> locals.date,
                      Rates |-> << >>, Source |-> "bcb_api"])

\* Client.GetPIXStats up to the request
bcb_GetPIXStats ==
    Started(EmptyValues,
            bcb_doRequest(OlindaURL
                \o "/Pix_DadosAbertos/versao/v1/odata/EstatisticasTransacoesPix(Database=@Database)?@Database='202401'&$format=json"))

\* Client.GetPIXStats from the response on
bcb_GetPIXStats_return(locals, status, body) ==
    LET got == bcb_doRequest_response(status, body)
        parsed == UnmarshalStruct(got.body[1])
    IN  IF got.err # Nil THEN Failure(got.err[1])
        ELSE IF parsed.err # Nil THEN Failure("parsing response: " \o parsed.err[1])
        ELSE Success([Stats |-> [Data |-> parsed.items], Source |-> "bcb_api"])

----------------------------------------------------------------------------
(* package ibge *)

LocalidadesURL == "https://servicodados.ibge.gov.br/api/v1/localidades"
AgregadosURL == "https://servicodados.ibge.gov.br/api/v3/agregados"

\* Client.doRequest up to httpClient.Do
ibge_doRequest(url) == Request(url, << >>, [Accept |-> "application/json"])

\* Client.doRequest after io.ReadAll: the (body, error) pair it returns
ibge_doRequest_response(status, body) ==
    IF status # StatusOK
    THEN [body |-> Nil,
          err |-> Some("API error (status " \o FormatInt(status) \o "): " \o body)]
    ELSE [body |-> Some(body), err |-> Nil]

\* Client.GetStates up to the request
ibge_GetStates == Started(EmptyValues, ibge_doRequest(LocalidadesURL \o "/estados?orderBy=nome"))

\* Client.GetStates from the response on
ibge_GetStates_return(locals, status, body) ==
    LET got == ibge_doRequest_response(status, body)
        parsed == UnmarshalSlice(got.body[1])
    IN  IF got.err # Nil THEN Failure(got.err[1])
        ELSE IF parsed.err # Nil THEN Failure("parsing response: " \o parsed.err[1])
        ELSE Success([States |-> parsed.items, Total |-> Len(parsed.items),
                      Source |-> "ibge_api"])

\* Client.GetMunicipalities up to the request
ibge_GetMunicipalities(stateID) ==
    Started([stateID |-> stateID],
            ibge_doRequest(IF stateID # ""
                           THEN LocalidadesURL \o "/estados/" \o stateID
                                \o "/municipios?orderBy=nome"
                           ELSE LocalidadesURL \o "/municipios?orderBy=nome"))

\* Client.GetMunicipalities from the response on
ibge_GetMunicipalities_return(locals, status, body) ==
    LET got == ibge_doRequest_response(status, body)
        parsed == UnmarshalSlice(got.body[1])
    IN  IF got.err # Nil THEN Failure(got.err[1])
        ELSE IF parsed.err # Nil THEN Failure("parsing response: " \o parsed.err[1])
        ELSE Success([Municipalities |-> parsed.items, Total |-> Len(parsed.items),
                      StateID |-> locals.stateID, Source |-> "ibge_api"])

\* Client.GetPopulation up to the request
ibge_GetPopulation(locationID) ==
    Started(EmptyValues,
            ibge_doRequest(IF locationID # ""
                           THEN AgregadosURL
                                \o "/6579/periodos/-6/variaveis/9324?localidades=N6["
                                \o locationID \o "]"
                           ELSE AgregadosURL
                                \o "/6579/periodos/-6/variaveis/9324?localidades=N1[all]"))

(* Bodies of the population aggregate.  A body is a JSON array of one object;  *)
(* its shape says, for each step of GetPopulation's walk, what is found there: *)
(* "resultados" (absent, a string, an empty list, a list), the first result    *)
(* (an object, a string), its "series" (absent, a list of one element), the    *)
(* element (an object, a number), its "localidade" (absent, a string, an       *)
(* object), the "nome" of that (absent, a number, a string), and its "serie"   *)
(* (absent, an object of 0 .. MaxYears years).                                 *)
PopulationShape(years) ==
    [nome |-> "string", resultados |-> "list", first |-> "object", series |-> "list",
     element |-> "object", localidade |-> "object", serie |-> "object", years |-> years]

PopulationShapes ==
    {PopulationShape(n) : n \in 0..MaxYears}
    \cup {[PopulationShape(1) EXCEPT !.resultados = k] : k \in {"absent", "string", "empty"}}
    \cup {[PopulationShape(1) EXCEPT !.first = "string"],
          [PopulationShape(1) EXCEPT !.series = "absent"],
          [PopulationShape(1) EXCEPT !.element = "number"],
          [PopulationShape(1) EXCEPT !.serie = "absent"]}
    \cup {[PopulationShape(1) EXCEPT !.localidade = k] : k \in {"absent", "string"}}
    \cup {[PopulationShape(n) EXCEPT !.nome = k] : n \in {0, 1}, k \in {"absent", "number"}}

\* The year and the estimate of the i-th entry of a "serie" object
PopulationYear(i) == ToString(2019 + i)
PopulationValue(i) == ToString(211000000 + i)

RECURSIVE PopulationYears(_)
PopulationYears(n) ==
    IF n = 0 THEN ""
    ELSE (IF n = 1 THEN "" ELSE PopulationYears(n - 1) \o ",")
         \o "\"" \o PopulationYear(n) \o "\":\"" \o PopulationValue(n) \o "\""

\* The JSON text of a body of the given shape
PopulationBody(v) ==
    LET nome == CASE v.nome = "string" -> "\"nome\":\"Brasil\""
                  [] v.nome = "number" -> "\"nome\":1"
                  [] OTHER -> ""
        localidade == CASE v.localidade = "object" -> "\"localidade\":{" \o nome \o "}"
                        [] v.localidade = "string" -> "\"localidade\":\"Brasil\""
                        [] OTHER -> ""
        serie == IF v.serie = "object"
                 THEN "\"serie\":{" \o PopulationYears(v.years) \o "}" ELSE ""
        element == IF v.element = "object"
                   THEN "{" \o localidade
                        \o (IF localidade # "" /\ serie # "" THEN "," ELSE "")
                        \o serie \o "}"
                   ELSE "7"
        series == IF v.series = "list" THEN "\"series\":[" \o element \o "]" ELSE ""
        first == IF v.first = "object" THEN "{" \o series \o "}" ELSE "\"x\""
        resultados == CASE v.resultados = "list" -> "\"resultados\":[" \o first \o "]"
                        [] v.resultados = "empty" -> "\"resultados\":[]"
                        [] v.resultados = "string" -> "\"resultados\":\"x\""
                        [] OTHER -> ""
    IN  "[{" \o resultados \o "}]"

PopulationBodies == {PopulationBody(v) : v \in PopulationShapes}

\* json.Unmarshal(body, &result) in GetPopulation: the shape of result[0]; an
\* array of the other bodies has no object with a "resultados" key
ParsePopulation(body) ==
    IF body \in PopulationBodies
    THEN CHOOSE v \in PopulationShapes : PopulationBody(v) = body
    ELSE [PopulationShape(0) EXCEPT !.resultados = "absent"]

\* The orders in which "for year, pop := range serieData" may visit n years
RangeOrders(n) == {o \in [1..n -> 1..n] : \A i, j \in 1..n : o[i] = o[j] => i = j}

\* Client.GetPopulation, the walk over the decoded body: an unchecked type
\* assertion on a value of another type (or on a missing key's nil) panics
ibge_GetPopulation_panics(body) ==
    LET v == ParsePopulation(body)
    IN  /\ v.resultados = "list"
        /\ \/ v.first # "object"
           \/ /\ v.series = "list"
              /\ \/ v.element # "object"
                 \/ v.localidade # "object"
                 \/ v.serie = "object" /\ v.years > 0 /\ v.nome # "string"

\* Client.GetPopulation, the walk over the decoded body: the data it appends
ibge_GetPopulation_data(body, order) ==
    LET v == ParsePopulation(body)
    IN  IF v.resultados = "list" /\ v.series = "list" /\ v.serie = "object"
        THEN [i \in 1..v.years |->
                 [Location |-> "Brasil", Year |-> PopulationYear(order[i]),
                  Population |-> PopulationValue(order[i])]]
        ELSE << >>

\* Client.GetPopulation from the response on, when the walk does not panic
ibge_GetPopulation_return(locals, status, body, order) ==
    LET got == ibge_doRequest_response(status, body)
        parsed == IF body \in PopulationBodies THEN [err |-> Nil, items |-> <<1>>]
                  ELSE UnmarshalSlice(got.body[1])
    IN  IF got.err # Nil THEN Failure(got.err[1])
        ELSE IF parsed.err # Nil THEN Failure("parsing response: " \o parsed.err[1])
        ELSE Success([Data |-> ibge_GetPopulation_data(body, order), Source |-> "ibge_api"])

----------------------------------------------------------------------------
(* The tool handlers of the server (package main) *)

\* The names under which main's register*Tools functions add a tool to the server
RegisteredTools ==
    { "search_contracts", "search_servidores", "get_remuneracao", "search_convenios",
      "search_ceis", "list_orgaos",
      "ibge_states", "ibge_municipalities", "ibge_population",
      "lookup_cnpj",
      "bcb_selic", "bcb_ipca", "bcb_exchange_rate", "bcb_indicator",
      "pncp_contracts", "pncp_modalities" }

\* The parameters each tool is registered with as mcp.Required()
RequiredParameters(tool) ==
    CASE tool = "search_servidores" -> {"nome"}
      [] tool = "get_remuneracao" -> {"cpf"}
      [] tool = "lookup_cnpj" -> {"cnpj"}
      [] tool = "bcb_indicator" -> {"indicator"}
      [] tool = "pncp_contracts" -> {"start_date", "end_date"}
      [] OTHER -> {}

\* A JSON string and a JSON number among a tool call's arguments
JStr(s) == [type |-> "string", str |-> s, num |-> 0]
JNum(n) == [type |-> "number", str |-> "", num |-> n]

\* The argument maps that give each parameter of choices one of its values or omit it
ArgumentMaps(choices) ==
    UNION { { a \in [D -> UNION {choices[k] : k \in DOMAIN choices}] :
                \A k \in D : a[k] \in choices[k] } : D \in SUBSET DOMAIN choices }

\* request.RequireString(key): the string, or an error when the argument is
\* missing or is no string
RequireString(args, key) ==
    IF key \in DOMAIN args /\ args[key].type = "string"
    THEN [val |-> args[key].str, err |-> Nil]
    ELSE [val |-> "", err |-> Some("required argument \"" \o key \o "\" not found")]

\* request.GetArguments()[key].(string) with the ok result dropped
StringArg(args, key) ==
    IF key \in DOMAIN args /\ args[key].type = "string" THEN args[key].str ELSE ""

\* getIntArg
getIntArg(args, key, defaultVal) ==
    IF key \in DOMAIN args /\ args[key].type = "number" THEN args[key].num ELSE defaultVal

\* mcp.NewToolResultError and toJSONResult
NewToolResultError(text) == [isError |-> TRUE, text |-> text]
toJSONResult(data) == [isError |-> FALSE, text |-> ToString(data)]

\* Mutant: the handler answers a failed call with a fixed text
handlerReturn_masked(res) ==
    IF res.err # Nil THEN NewToolResultError("Error: request failed")
    ELSE toJSONResult(res.env[1])

\* What a handler returns once its adapter call has returned
handlerReturn(res) ==
    IF res.err # Nil THEN NewToolResultError("Error: " \o res.err[1])
    ELSE toJSONResult(res.env[1])

\* A handler that returns before calling the adapter, and one that calls it
Early(text) == [early |-> Some(NewToolResultError(text)), op |-> "", args |-> EmptyValues,
                start |-> Rejected("")]
Calls(op, args, start) == [early |-> Nil, op |-> op, args |-> args, start |-> start]

\* handleSearchServidores
handleSearchServidores(c, args) ==
    LET nome == RequireString(args, "nome").val
        page == getIntArg(args, "page", 1)
        pageSize == getIntArg(args, "page_size", 100)
    IN  Calls("transparencia.SearchServidores",
              [nome |-> nome, page |-> page, pageSize |-> pageSize],
              transparencia_SearchServidores(c, nome, page, pageSize))

\* handleGetRemuneracao
handleGetRemuneracao(c, args, now) ==
    LET cpf == RequireString(args, "cpf").val
        mesAno == StringArg(args, "mes_ano")
    IN  Calls("transparencia.GetServidorRemuneracao",
              [cpf |-> cpf, mesAno |-> mesAno, now |-> now],
              transparencia_GetServidorRemuneracao(c, cpf, mesAno, now))

\* handleLookupCNPJ
handleLookupCNPJ(args) ==
    LET cnpjNum == RequireString(args, "cnpj")
    IN  IF cnpjNum.err # Nil THEN Early("Parameter 'cnpj' is required")
        ELSE Calls("cnpj.GetCNPJ", [cnpj |-> cnpjNum.val], cnpj_GetCNPJ(cnpjNum.val))

\* handleBCBIndicator
handleBCBIndicator(args) ==
    LET indicator == RequireString(args, "indicator")
        lastN == getIntArg(args, "last_n", 30)
    IN  IF indicator.err # Nil THEN Early("Parameter 'indicator' is required")
        ELSE Calls("bcb.GetIndicator", [indicator |-> indicator.val, lastN |-> lastN],
                   bcb_GetIndicator(indicator.val, lastN))

\* handlePNCPContracts
handlePNCPContracts(args) ==
    LET startDate == RequireString(args, "start_date").val
        endDate == RequireString(args, "end_date").val
        state == StringArg(args, "state")
        modality == getIntArg(args, "modality", 6)
        page == getIntArg(args, "page", 1)
    IN  Calls("pncp.SearchContracts",
              [startDate |-> startDate, endDate |-> endDate, modalityCode |-> modality,
               state |-> state, page |-> page, pageSize |-> 50],
              pncp_SearchContracts(startDate, endDate, modality, state, page, 50))

\* The handlers that read their optional arguments and call the adapter:
\* handleSearchContracts, handleSearchConvenios, handleSearchCEIS,
\* handleIBGEStates, handleIBGEMunicipalities, handleIBGEPopulation,
\* handleBCBSelic, handleBCBIPCA and handleBCBExchangeRate, by the tool's name
handler(c, tool, args, now) ==
    LET page == getIntArg(args, "page", 1)
        pageSize == getIntArg(args, "page_size", 100)
    IN  CASE tool = "search_contracts" ->
                LET orgaoCode == StringArg(args, "orgao_code")
                IN  Calls("transparencia.SearchContracts",
                          [orgaoCode |-> orgaoCode, page |-> page, pageSize |-> pageSize],
                          transparencia_SearchContracts(c, orgaoCode, page, pageSize))
          [] tool = "search_convenios" ->
                LET uf == StringArg(args, "uf")
                IN  Calls("transparencia.SearchConvenios",
                          [uf |-> uf, page |-> page, pageSize |-> pageSize],
                          transparencia_SearchConvenios(c, uf, page, pageSize))
          [] tool = "search_ceis" ->
                LET cnpj == StringArg(args, "cnpj")
                IN  Calls("transparencia.SearchCEIS",
                          [cnpj |-> cnpj, page |-> page, pageSize |-> pageSize],
                          transparencia_SearchCEIS(c, cnpj, page, pageSize))
          [] tool = "ibge_states" -> Calls("ibge.GetStates", EmptyValues, ibge_GetStates)
          [] tool = "ibge_municipalities" ->
                LET stateID == StringArg(args, "state_id")
                IN  Calls("ibge.GetMunicipalities", [stateID |-> stateID],
                          ibge_GetMunicipalities(stateID))
          [] tool = "ibge_population" ->
                LET locationID == StringArg(args, "location_id")
                IN  Calls("ibge.GetPopulation", [locationID |-> locationID],
                          ibge_GetPopulation(locationID))
          [] tool = "bcb_selic" ->
                LET lastN == getIntArg(args, "last_n", 30)
                IN  Calls("bcb.GetSELIC", [lastN |-> lastN], bcb_GetSELIC(lastN))
          [] tool = "bcb_ipca" ->
                LET lastN == getIntArg(args, "last_n", 12)
                IN  Calls("bcb.GetIPCA", [lastN |-> lastN], bcb_GetIPCA(lastN))
          [] tool = "bcb_exchange_rate" ->
                LET currency == StringArg(args, "currency")
                    date == StringArg(args, "date")
                IN  Calls("bcb.GetExchangeRate",
                          [currency |-> currency, date |-> date, now |-> now],
                          bcb_GetExchangeRate(currency, date, now))

----------------------------------------------------------------------------
(* The invocation *)

NoCall == [tool |-> "", toolArgs |-> EmptyValues, op |-> "", args |-> EmptyValues]
NoResult == [env |-> Nil, err |-> Nil]

\* The client the server built at start-up
transparenciaClient == transparencia_NewClient(apiKey)

\* The second half of each operation, by the operation's name
Return(op, locals, status, body) ==
    CASE op = "pncp.SearchContracts" -> pncp_SearchContracts_return(locals, status, body)
      [] op = "pncp.SearchPriceRegistrations" ->
            pncp_SearchPriceRegistrations_return(locals, status, body)
      [] op = "transparencia.SearchContracts" ->
            transparencia_SearchContracts_return(locals, status, body)
      [] op = "transparencia.SearchServidores" ->
            transparencia_SearchServidores_return(locals, status, body)
      [] op = "transparencia.GetServidorRemuneracao" ->
            transparencia_GetServidorRemuneracao_return(locals, status, body)
      [] op = "transparencia.SearchConvenios" ->
            transparencia_SearchConvenios_return(locals, status, body)
      [] op = "transparencia.SearchCEIS" ->
            transparencia_SearchCEIS_return(locals, status, body)
      [] op = "cnpj.GetCNPJ" -> cnpj_GetCNPJ_return(locals, status, body)
      [] op \in {"bcb.GetIndicator", "bcb.GetSELIC", "bcb.GetIPCA"} ->
            bcb_GetIndicator_return(locals, status, body)
      [] op = "bcb.GetExchangeRate" -> bcb_GetExchangeRate_return(locals, status, body)
      [] op = "bcb.GetPIXStats" -> bcb_GetPIXStats_return(locals, status, body)
      [] op = "ibge.GetStates" -> ibge_GetStates_return(locals, status, body)
      [] op = "ibge.GetMunicipalities" -> ibge_GetMunicipalities_return(locals, status, body)
      [] op = "ibge.GetPopulation" -> ibge_GetPopulation_return(locals, status, body, << >>)

\* The first half of each operation, by the operation's name: c is the
\* transparencia client, args the arguments by their parameter names
Invoke(c, op, args) ==
    CASE op = "pncp.SearchContracts" ->
            pncp_SearchContracts(args.startDate, args.endDate, args.modalityCode,
                                 args.state, args.page, args.pageSize)
      [] op = "pncp.SearchPriceRegistrations" ->
            pncp_SearchPriceRegistrations(args.state, args.page, args.pageSize)
      [] op = "transparencia.SearchContracts" ->
            transparencia_SearchContracts(c, args.orgaoCode, args.page, args.pageSize)
      [] op = "transparencia.SearchServidores" ->
            transparencia_SearchServidores(c, args.nome, args.page, args.pageSize)
      [] op = "transparencia.GetServidorRemuneracao" ->
            transparencia_GetServidorRemuneracao(c, args.cpf, args.mesAno, args.now)
      [] op = "transparencia.SearchConvenios" ->
            transparencia_SearchConvenios(c, args.uf, args.page, args.pageSize)
      [] op = "transparencia.SearchCEIS" ->
            transparencia_SearchCEIS(c, args.cnpj, args.page, args.pageSize)
      [] op = "cnpj.GetCNPJ" -> cnpj_GetCNPJ(args.cnpj)
      [] op = "bcb.GetIndicator" -> bcb_GetIndicator(args.indicator, args.lastN)
      [] op = "bcb.GetSELIC" -> bcb_GetSELIC(args.lastN)
      [] op = "bcb.GetIPCA" -> bcb_GetIPCA(args.lastN)
      [] op = "bcb.GetExchangeRate" ->
            bcb_GetExchangeRate(args.currency, args.date, args.now)
      [] op = "bcb.GetPIXStats" -> bcb_GetPIXStats
      [] op = "ibge.GetStates" -> ibge_GetStates
      [] op = "ibge.GetMunicipalities" -> ibge_GetMunicipalities(args.stateID)
      [] op = "ibge.GetPopulation" -> ibge_GetPopulation(args.locationID)

\* The goroutines that call the adapters at the same time, and one that is not
\* inside a call
Callers == 1..MaxCallers
IdleSlot ==
    [op |-> "", args |-> EmptyValues, frame |-> EmptyValues, pc |-> "idle",
     requests |-> << >>, response |-> Nil, result |-> NoResult]

\* An adapter operation called directly: it fails validation, or its request leaves
Direct(op, args, start) ==
    /\ call' = [tool |-> "", toolArgs |-> EmptyValues, op |-> op, args |-> args]
    /\ frame' = start.frame
    /\ reply' = Nil
    /\ IF start.err = Nil
       THEN pc' = "waiting" /\ requests' = <<start.req[1]>> /\ result' = NoResult
       ELSE pc' = "done" /\ requests' = << >> /\ result' = Failure(start.err[1])
    /\ UNCHANGED <<apiKey, response, inflight, tables, held>>

\* A tool handler called: it returns early, or calls its adapter operation
Tool(tool, toolArgs, h) ==
    /\ tool \in RegisteredTools
    /\ call' = [tool |-> tool, toolArgs |-> toolArgs, op |-> h.op, args |-> h.args]
    /\ IF h.early # Nil
       THEN /\ pc' = "done" /\ frame' = EmptyValues /\ requests' = << >>
            /\ result' = NoResult /\ reply' = h.early
       ELSE IF h.start.err = Nil
       THEN /\ pc' = "waiting" /\ frame' = h.start.frame
            /\ requests' = <<h.start.req[1]>>
            /\ result' = NoResult /\ reply' = Nil
       ELSE /\ pc' = "done" /\ frame' = h.start.frame /\ requests' = << >>
            /\ result' = Failure(h.start.err[1])
            /\ reply' = Some(handlerReturn(Failure(h.start.err[1])))
    /\ UNCHANGED <<apiKey, response, inflight, tables, held>>

\* A run-time panic ends the call: nothing is returned to the caller
Panics(got) ==
    /\ pc' = "panicked"
    /\ response' = Some(got)
    /\ UNCHANGED <<apiKey, call, frame, requests, result, reply, inflight, tables, held>>

\* Mutant: a failed call sends its request once more before it returns
Returns_retrying(got, res) ==
    /\ pc' = "done"
    /\ response' = Some(got)
    /\ result' = res
    /\ reply' = IF call.tool = "" THEN Nil ELSE Some(handlerReturn(res))
    /\ requests' = IF res.err # Nil THEN requests \o <<requests[1]>> ELSE requests
    /\ UNCHANGED <<apiKey, call, frame, inflight, tables, held>>

\* The upstream's answer got is in; the operation returns res to its caller, a
\* handler or the direct caller
Returns(got, res) ==
    /\ pc' = "done"
    /\ response' = Some(got)
    /\ result' = res
    /\ reply' = IF call.tool = "" THEN Nil ELSE Some(handlerReturn(res))
    /\ UNCHANGED <<apiKey, call, frame, requests, inflight, tables, held>>

----------------------------------------------------------------------------
(* Actions: the adapter operations called directly *)

\* The (startDate, endDate) and (modalityCode, state) arguments of the model
DateRanges == {<<"", "">>, <<"20240101", "">>, <<"20240101", "20240131">>}
Filters == {<<0, "">>, <<0, "SP">>, <<8, "SP">>}

PNCPSearchContracts ==
    \E dates \in DateRanges, filter \in Filters, page \in Pages, pageSize \in PageSizes :
      LET startDate == dates[1]
          endDate == dates[2]
          modalityCode == filter[1]
          state == filter[2]
      IN
        pc = "idle" /\ Direct("pncp.SearchContracts",
               [startDate |-> startDate, endDate |-> endDate,
                modalityCode |-> modalityCode, state |-> state,
                page |-> page, pageSize |-> pageSize],
               pncp_SearchContracts(startDate, endDate, modalityCode, state, page, pageSize))

PNCPSearchPriceRegistrations ==
    \E state \in Strings, page \in Pages, pageSize \in PageSizes :
        pc = "idle" /\ Direct("pncp.SearchPriceRegistrations",
               [state |-> state, page |-> page, pageSize |-> pageSize],
               pncp_SearchPriceRegistrations(state, page, pageSize))

TransparenciaSearchContracts ==
    \E orgaoCode \in {"", "26000", "99999"}, page \in Pages, pageSize \in PageSizes :
        pc = "idle" /\ Direct("transparencia.SearchContracts",
               [orgaoCode |-> orgaoCode, page |-> page, pageSize |-> pageSize],
               transparencia_SearchContracts(transparenciaClient, orgaoCode, page, pageSize))

TransparenciaSearchServidores ==
    \E nome \in {"", "maria", "ana lima", "a&b=c"}, page \in Pages, pageSize \in PageSizes :
        pc = "idle" /\ Direct("transparencia.SearchServidores",
               [nome |-> nome, page |-> page, pageSize |-> pageSize],
               transparencia_SearchServidores(transparenciaClient, nome, page, pageSize))

TransparenciaGetServidorRemuneracao ==
    \E cpf \in {"", "12345678901", "1?x=1"}, mesAno \in {"", "01/2024"}, now \in Clock :
        pc = "idle" /\ Direct("transparencia.GetServidorRemuneracao",
               [cpf |-> cpf, mesAno |-> mesAno, now |-> now],
               transparencia_GetServidorRemuneracao(transparenciaClient, cpf, mesAno, now))

TransparenciaSearchConvenios ==
    \E uf \in Strings, page \in Pages, pageSize \in PageSizes :
        pc = "idle" /\ Direct("transparencia.SearchConvenios",
               [uf |-> uf, page |-> page, pageSize |-> pageSize],
               transparencia_SearchConvenios(transparenciaClient, uf, page, pageSize))

TransparenciaSearchCEIS ==
    \E cnpj \in {"", "12345678000190"}, page \in Pages, pageSize \in PageSizes :
        pc = "idle" /\ Direct("transparencia.SearchCEIS",
               [cnpj |-> cnpj, page |-> page, pageSize |-> pageSize],
               transparencia_SearchCEIS(transparenciaClient, cnpj, page, pageSize))

\* The CNPJ arguments of the model: the first n digits of a registered number,
\* bare, punctuated the canonical way, or between other runes
DigitSources ==
    { <<"1", "2", "3", "4", "5", "6", "7", "8", "0", "0", "0", "1", "9", "0">>,
      <<"0", "0", "0", "0", "0", "0", "0", "0", "0", "0", "0", "1", "9", "1">> }

DigitAt(src, i) == src[((i - 1) % 14) + 1]

SeparatorAfter(i) ==
    IF i \in {2, 5} THEN <<".">> ELSE IF i = 8 THEN <<"/">>
    ELSE IF i = 12 THEN <<"-">> ELSE << >>

RECURSIVE Written(_, _, _)
Written(style, src, n) ==
    IF n = 0 THEN << >>
    ELSE Written(style, src, n - 1)
         \o (IF style = "punctuated" THEN SeparatorAfter(n - 1)
             ELSE IF style = "noisy" THEN <<" ", "é">> ELSE << >>)
         \o <<DigitAt(src, n)>>

CNPJInputs ==
    { Written(style, src, n) : style \in {"bare", "punctuated", "noisy"},
                               src \in DigitSources, n \in 0..MaxDigits }

CNPJGetCNPJ ==
    \E cnpj \in CNPJInputs :
        pc = "idle" /\ Direct("cnpj.GetCNPJ", [cnpj |-> cnpj], cnpj_GetCNPJ(cnpj))

Indicators == {"selic", "selic_monthly", "ipca", "igpm", "cdi", "dollar", ""}
LastNs == {-1, 0, 1, 30}

BCBGetIndicator ==
    \E indicator \in Indicators, lastN \in LastNs :
        pc = "idle" /\ Direct("bcb.GetIndicator", [indicator |-> indicator, lastN |-> lastN],
               bcb_GetIndicator(indicator, lastN))

BCBGetSELIC ==
    \E lastN \in LastNs :
        pc = "idle" /\ Direct("bcb.GetSELIC", [lastN |-> lastN], bcb_GetSELIC(lastN))

BCBGetIPCA ==
    \E lastN \in LastNs :
        pc = "idle" /\ Direct("bcb.GetIPCA", [lastN |-> lastN], bcb_GetIPCA(lastN))

BCBGetExchangeRate ==
    \E currency \in {"", "EUR", "EUR'&x='1"}, date \in {"", "01-15-2024"}, now \in Clock :
        pc = "idle" /\ Direct("bcb.GetExchangeRate",
               [currency |-> currency, date |-> date, now |-> now],
               bcb_GetExchangeRate(currency, date, now))

BCBGetPIXStats == pc = "idle" /\ Direct("bcb.GetPIXStats", EmptyValues, bcb_GetPIXStats)

IBGEGetStates == pc = "idle" /\ Direct("ibge.GetStates", EmptyValues, ibge_GetStates)

IBGEGetMunicipalities ==
    \E stateID \in {"", "33", "33?x=1"} :
        pc = "idle" /\ Direct("ibge.GetMunicipalities", [stateID |-> stateID],
               ibge_GetMunicipalities(stateID))

IBGEGetPopulation ==
    \E locationID \in {"", "3550308", "1]&view=x"} :
        pc = "idle" /\ Direct("ibge.GetPopulation", [locationID |-> locationID],
               ibge_GetPopulation(locationID))

----------------------------------------------------------------------------
(* Actions: the tools called *)

ToolSearchServidores ==
    \E toolArgs \in ArgumentMaps([nome |-> {JStr(""), JStr("maria"), JNum(7)},
                                  page |-> {JNum(2), JStr("2")},
                                  page_size |-> {JNum(50)}]) :
        pc = "idle" /\ Tool("search_servidores", toolArgs,
             handleSearchServidores(transparenciaClient, toolArgs))

ToolGetRemuneracao ==
    \E toolArgs \in ArgumentMaps([cpf |-> {JStr(""), JStr("12345678901"), JNum(7)},
                                  mes_ano |-> {JStr("01/2024")}]),
       now \in Clock :
        pc = "idle" /\ Tool("get_remuneracao", toolArgs,
             handleGetRemuneracao(transparenciaClient, toolArgs, now))

ToolLookupCNPJ ==
    \E toolArgs \in ArgumentMaps(
           [cnpj |-> {[type |-> "string", str |-> w, num |-> 0] :
                          w \in {Written("punctuated", src, n) :
                                     src \in DigitSources, n \in {0, 4, 14}}}
                     \cup {[type |-> "number", str |-> << >>, num |-> 7]}]) :
        pc = "idle" /\ Tool("lookup_cnpj", toolArgs, handleLookupCNPJ(toolArgs))

ToolBCBIndicator ==
    \E toolArgs \in ArgumentMaps([indicator |-> {JStr("ipca"), JStr("dollar"), JNum(7)},
                                  last_n |-> {JNum(0), JNum(12), JStr("12")}]) :
        pc = "idle" /\ Tool("bcb_indicator", toolArgs, handleBCBIndicator(toolArgs))

ToolPNCPContracts ==
    \E toolArgs \in ArgumentMaps([start_date |-> {JStr("20240101"), JNum(7)},
                                  end_date |-> {JStr("20240131")},
                                  state |-> {JStr("SP")},
                                  modality |-> {JNum(8)},
                                  page |-> {JNum(2)}]) :
        pc = "idle" /\ Tool("pncp_contracts", toolArgs, handlePNCPContracts(toolArgs))

\* One of the tools whose parameters are all optional is called
ToolCall ==
    \E tool \in { "search_contracts", "search_convenios", "search_ceis", "ibge_states",
                  "ibge_municipalities", "ibge_population", "bcb_selic", "bcb_ipca",
                  "bcb_exchange_rate" } :
      LET choices ==
            CASE tool = "search_contracts" ->
                    [page |-> {JNum(2)}, orgao_code |-> {JStr("26000")}]
              [] tool = "search_convenios" -> [uf |-> {JStr("SP")}]
              [] tool = "search_ceis" -> [cnpj |-> {JStr("12345678000190")}]
              [] tool = "ibge_municipalities" -> [state_id |-> {JStr("33")}]
              [] tool = "ibge_population" -> [location_id |-> {JStr("3550308")}]
              [] tool \in {"bcb_selic", "bcb_ipca"} ->
                    [last_n |-> {JNum(0), JNum(5), JStr("5")}]
              [] tool = "bcb_exchange_rate" ->
                    [currency |-> {JStr("EUR")}, date |-> {JStr("01-15-2024")}]
              [] OTHER -> EmptyValues
      IN  \E toolArgs \in ArgumentMaps(choices), now \in Clock :
              pc = "idle" /\ Tool(tool, toolArgs,
                                  handler(transparenciaClient, tool, toolArgs, now))

----------------------------------------------------------------------------
(* Actions: the upstream answers, and the invocation ends *)

HTTPResponse(status, body) == [kind |-> "http", status |-> status, body |-> body, cause |-> ""]
NoResponse(kind, cause) == [kind |-> kind, status |-> 0, body |-> "", cause |-> cause]

\* The upstream answers with a status and a body, read to its end
Respond ==
    \E status \in Statuses, body \in Bodies :
        pc = "waiting" /\ Returns(HTTPResponse(status, body), Return(call.op, frame, status, body))

\* The upstream answers GetPopulation with a body of the population aggregate
RespondPopulation ==
    \E status \in Statuses, body \in PopulationBodies :
        \E order \in RangeOrders(ParsePopulation(body).years) :
            /\ pc = "waiting"
            /\ call.op = "ibge.GetPopulation"
            /\ IF status = StatusOK /\ ibge_GetPopulation_panics(body)
               THEN Panics(HTTPResponse(status, body))
               ELSE Returns(HTTPResponse(status, body),
                            ibge_GetPopulation_return(frame, status, body, order))

\* Mutant: a failed Do hands back the envelope it had begun to fill
TransportError_partial ==
    \E cause \in TransportErrors :
        pc = "waiting" /\ Returns(NoResponse("transport", cause),
                                  [env |-> Some(EmptyValues),
                                   err |-> Some("executing request: " \o cause)])

\* httpClient.Do fails: no connection, a timeout, a cancelled context
TransportError ==
    \E cause \in TransportErrors :
        pc = "waiting" /\ Returns(NoResponse("transport", cause),
                                  Failure("executing request: " \o cause))

\* io.ReadAll fails: the body breaks off, or the context ends while it is read
ReadError ==
    \E cause \in ReadErrors :
        pc = "waiting" /\ Returns(NoResponse("read", cause),
                                  Failure("reading response: " \o cause))

\* The caller has its answer; the next invocation may begin
Finish ==
    /\ pc = "done"
    /\ pc' = "idle"
    /\ call' = NoCall
    /\ frame' = EmptyValues
    /\ requests' = << >>
    /\ response' = Nil
    /\ result' = NoResult
    /\ reply' = Nil
    /\ UNCHANGED <<apiKey, inflight, tables, held>>

----------------------------------------------------------------------------
(* Specification *)

\* The value of TRANSPARENCY_API_KEY the server was started with
APIKeys == {"", "k3y"}

Init ==
    /\ apiKey \in APIKeys
    /\ pc = "idle"
    /\ call = NoCall
    /\ frame = EmptyValues
    /\ requests = << >>
    /\ response = Nil
    /\ result = NoResult
    /\ reply = Nil
    /\ inflight = [i \in Callers |-> IdleSlot]
    /\ tables = [Modalities |-> Modalities, KnownOrgaos |-> KnownOrgaos]
    /\ held = Nil

Next ==
    \/ PNCPSearchContracts
    \/ PNCPSearchPriceRegistrations
    \/ TransparenciaSearchContracts
    \/ TransparenciaSearchServidores
    \/ TransparenciaGetServidorRemuneracao
    \/ TransparenciaSearchConvenios
    \/ TransparenciaSearchCEIS
    \/ CNPJGetCNPJ
    \/ BCBGetIndicator
    \/ BCBGetSELIC
    \/ BCBGetIPCA
    \/ BCBGetExchangeRate
    \/ BCBGetPIXStats
    \/ IBGEGetStates
    \/ IBGEGetMunicipalities
    \/ IBGEGetPopulation
    \/ ToolSearchServidores
    \/ ToolGetRemuneracao
    \/ ToolLookupCNPJ
    \/ ToolBCBIndicator
    \/ ToolPNCPContracts
    \/ ToolCall
    \/ Respond
    \/ RespondPopulation
    \/ TransportError
    \/ ReadError
    \/ Finish

Spec == Init /\ [][Next]_vars

\* Every client is built with Timeout: DefaultTimeout (30 seconds), which covers
\* the connection, the headers and the reading of the body: a call that is still
\* waiting when the time is up gets the deadline's error from Do or from ReadAll.
\* Nothing else is assumed of the upstream, which may never answer.
ClientTimeout ==
    \/ pc = "waiting" /\ Returns(NoResponse("transport", "context deadline exceeded"),
                                 Failure("executing request: context deadline exceeded"))
    \/ pc = "waiting" /\ Returns(NoResponse("read", "context deadline exceeded"),
                                 Failure("reading response: context deadline exceeded"))

SpecTimeout == Spec /\ WF_vars(ClientTimeout)

----------------------------------------------------------------------------
(* Concurrent callers: each runs one operation at a time on the clients the    *)
(* server built, the steps of different callers interleaved.  An operation     *)
(* keeps its arguments, its locals, its request and its response on its own    *)
(* goroutine's stack; the clients' fields are read, never assigned.            *)

\* The calls the concurrent callers make
SlotCalls ==
    { <<"transparencia.SearchCEIS", [cnpj |-> "", page |-> 1, pageSize |-> 10]>>,
      <<"transparencia.SearchCEIS", [cnpj |-> "12345678000190", page |-> 2, pageSize |-> 10]>>,
      <<"bcb.GetIndicator", [indicator |-> "ipca", lastN |-> 1]>>,
      <<"bcb.GetIndicator", [indicator |-> "dollar", lastN |-> 1]>> }

\* Caller i enters an operation: it fails validation, or its request leaves
SlotStart(i) ==
    \E c \in SlotCalls :
        LET start == Invoke(transparenciaClient, c[1], c[2])
        IN  /\ inflight[i].pc = "idle"
            /\ inflight' = [inflight EXCEPT ![i] =
                   [op |-> c[1], args |-> c[2], frame |-> start.frame,
                    pc |-> IF start.err = Nil THEN "waiting" ELSE "done",
                    requests |-> IF start.err = Nil THEN <<start.req[1]>> ELSE << >>,
                    response |-> Nil,
                    result |-> IF start.err = Nil THEN NoResult
                               ELSE Failure(start.err[1])]]
            /\ UNCHANGED <<apiKey, pc, call, frame, requests, response, result, reply, tables, held>>

\* Mutant: the response is kept where every call in progress reads it
SlotRespond_shared(i) ==
    \E status \in {200, 503}, body \in {"maintenance", ArrayBody(1)} :
        /\ inflight[i].pc = "waiting"
        /\ inflight' = [j \in Callers |->
               IF j = i
               THEN [inflight[i] EXCEPT
                        !.pc = "done",
                        !.response = Some(HTTPResponse(status, body)),
                        !.result = Return(inflight[i].op, inflight[i].frame, status, body)]
               ELSE [inflight[j] EXCEPT !.response = Some(HTTPResponse(status, body))]]
        /\ UNCHANGED <<apiKey, pc, call, frame, requests, response, result, reply, tables, held>>

\* The upstream answers caller i's request; the operation returns
SlotRespond(i) ==
    \E status \in {200, 503}, body \in {"maintenance", ArrayBody(1)} :
        /\ inflight[i].pc = "waiting"
        /\ inflight' = [inflight EXCEPT ![i] =
               [inflight[i] EXCEPT
                   !.pc = "done",
                   !.response = Some(HTTPResponse(status, body)),
                   !.result = Return(inflight[i].op, inflight[i].frame, status, body)]]
        /\ UNCHANGED <<apiKey, pc, call, frame, requests, response, result, reply, tables, held>>

\* httpClient.Do fails for caller i
SlotTransportError(i) ==
    \E cause \in TransportErrors :
        /\ inflight[i].pc = "waiting"
        /\ inflight' = [inflight EXCEPT ![i] =
               [inflight[i] EXCEPT
                   !.pc = "done",
                   !.response = Some(NoResponse("transport", cause)),
                   !.result = Failure("executing request: " \o cause)]]
        /\ UNCHANGED <<apiKey, pc, call, frame, requests, response, result, reply, tables, held>>

\* Caller i has its answer
SlotFinish(i) ==
    /\ inflight[i].pc = "done"
    /\ inflight' = [inflight EXCEPT ![i] = IdleSlot]
    /\ UNCHANGED <<apiKey, pc, call, frame, requests, response, result, reply, tables, held>>

NextCalls ==
    \E i \in Callers :
        \/ SlotStart(i)
        \/ SlotRespond(i)
        \/ SlotTransportError(i)
        \/ SlotFinish(i)

SpecCalls == Init /\ [][NextCalls]_vars

----------------------------------------------------------------------------
(* The lookup tables and the list operations.  Modalities and KnownOrgaos are  *)
(* package-level map variables; a Go map value is a reference to the map, so   *)
(* a function that returns the variable hands out the table itself.            *)

\* ListModalities returns Modalities, the map of the package variable: the caller
\* holds the table, not a copy
PNCPListModalities ==
    /\ pc = "idle"
    /\ held' = Some([op |-> "pncp.ListModalities", orgaos |-> {}])
    /\ UNCHANGED <<apiKey, pc, call, frame, requests, response, result, reply,
                   inflight, tables>>

\* ListOrgaos builds a new slice with one new codigo/nome map for each entry of
\* KnownOrgaos; the slice is kept as the set of its elements, their order being
\* that of Go's map iteration
TransparenciaListOrgaos ==
    /\ pc = "idle"
    /\ held' = Some([op |-> "transparencia.ListOrgaos",
                     orgaos |-> {[nome |-> tables.KnownOrgaos[code], codigo |-> code] :
                                    code \in DOMAIN tables.KnownOrgaos}])
    /\ UNCHANGED <<apiKey, pc, call, frame, requests, response, result, reply,
                   inflight, tables>>

\* The caller assigns to or deletes from the value it holds: m[key] = value or
\* delete(m, key) on the map of ListModalities, element["nome"] = "" on an
\* element of the slice of ListOrgaos
CallerWrites ==
    /\ held # Nil
    /\ IF held[1].op = "pncp.ListModalities"
       THEN /\ \E key \in {"leilao", "novo"}, value \in {0} :
                 \/ tables' = [tables EXCEPT
                                  !.Modalities = SetValue(tables.Modalities, key, value)]
                 \/ /\ key \in DOMAIN tables.Modalities
                    /\ tables' = [tables EXCEPT
                                     !.Modalities = [k \in DOMAIN tables.Modalities \ {key} |->
                                                        tables.Modalities[k]]]
            /\ UNCHANGED held
       ELSE /\ \E element \in {e \in held[1].orgaos : e.codigo = "26000"} :
                 held' = Some([held[1] EXCEPT
                                  !.orgaos = (held[1].orgaos \ {element})
                                             \cup {[element EXCEPT !.nome = ""]}])
            /\ UNCHANGED tables
    /\ UNCHANGED <<apiKey, pc, call, frame, requests, response, result, reply, inflight>>

NextTables ==
    \/ PNCPListModalities
    \/ TransparenciaListOrgaos
    \/ CallerWrites
    \/ BCBGetPIXStats
    \/ Respond
    \/ TransportError
    \/ Finish

SpecTables == Init /\ [][NextTables]_vars

----------------------------------------------------------------------------
(* Properties *)

\* The values a request's query string gives to key, and the keys it holds
QueryValues(req, key) ==
    {req.query[i][2] : i \in {j \in DOMAIN req.query : req.query[j][1] = key}}
QueryKeys(req) == {req.query[i][1] : i \in DOMAIN req.query}

PNCPSearches == {"pncp.SearchContracts", "pncp.SearchPriceRegistrations"}
TransparenciaSearches ==
    { "transparencia.SearchContracts", "transparencia.SearchServidores",
      "transparencia.SearchConvenios", "transparencia.SearchCEIS" }

\* The operation has returned an envelope
Succeeded == pc = "done" /\ result.env # Nil /\ result.err = Nil

(* C1: in the PNCP searches the request carries tamanhoPagina = 10 for every    *)
(* pageSize below 10, 500 for every pageSize above 500 and pageSize itself in   *)
(* between, and the envelope of SearchContracts echoes that value as PageSize.  *)
C1_PNCPPageSizeClamped ==
    call.op \in PNCPSearches =>
        LET pageSize == call.args.pageSize
            sent == QueryValues(requests[1], "tamanhoPagina")
            Echoed(n) == (call.op = "pncp.SearchContracts" /\ Succeeded)
                             => result.env[1].PageSize = n
        IN  /\ Len(requests) = 1
            /\ pageSize < 10 => sent = {"10"} /\ Echoed(10)
            /\ pageSize > 500 => sent = {"500"} /\ Echoed(500)
            /\ (pageSize >= 10 /\ pageSize <= 500) =>
                   sent = {ToString(pageSize)} /\ Echoed(pageSize)

\* SearchContracts called with a page size above 500 has returned an envelope of page size 500
C1_Witness ==
    /\ call.op = "pncp.SearchContracts"
    /\ call.args.pageSize > 500
    /\ Succeeded
    /\ result.env[1].PageSize = 500
    /\ QueryValues(requests[1], "tamanhoPagina") = {"500"}

(* C2: in the four Transparencia searches the page size is clamped to at most   *)
(* 500: every pageSize above 500 gives tamanhoPagina = 500 in the request and   *)
(* in the envelope, every pageSize in 1 .. 500 passes through, and 0 gives 100. *)
C2_TransparenciaPageSizeClamped ==
    (call.op \in TransparenciaSearches /\ requests # << >>) =>
        LET pageSize == call.args.pageSize
            sent == QueryValues(requests[1], "tamanhoPagina")
            Echoed(n) == Succeeded => result.env[1].PageSize = n
        IN  /\ pageSize > 500 => sent = {"500"} /\ Echoed(500)
            /\ (pageSize >= 1 /\ pageSize <= 500) =>
                   sent = {ToString(pageSize)} /\ Echoed(pageSize)
            /\ pageSize = 0 => sent = {"100"} /\ Echoed(100)

(* C3: in every paginated operation the request carries pagina = 1 and the      *)
(* envelope Page = 1 for every page below 1, and the page itself otherwise.     *)
C3_PageFlooredAtOne ==
    (call.op \in PNCPSearches \cup TransparenciaSearches /\ requests # << >>) =>
        LET page == call.args.page
            sent == QueryValues(requests[1], "pagina")
            Echoed(n) == Succeeded => result.env[1].Page = n
        IN  /\ page < 1 => sent = {"1"} /\ Echoed(1)
            /\ page >= 1 => sent = {ToString(page)} /\ Echoed(page)

\* SearchCEIS called with a page below 1 has returned an envelope of page 1
C3_Witness ==
    /\ call.op = "transparencia.SearchCEIS"
    /\ call.args.page < 1
    /\ Succeeded
    /\ result.env[1].Page = 1
    /\ QueryValues(requests[1], "pagina") = {"1"}

(* C4: formatCNPJ succeeds exactly when its argument holds 14 digit runes, and   *)
(* then gives those digits, in their order, as DD.DDD.DDD/DDDD-DD; otherwise it  *)
(* fails with a message that reports the number of digits found.                 *)
C4_FormatCNPJ ==
    (call.op = "cnpj.GetCNPJ" /\ call.tool = "") =>
        LET cnpj == call.args.cnpj
            d == SelectSeq(cnpj, LAMBDA r : r \in DigitRunes)
            count == Cardinality({i \in DOMAIN cnpj : cnpj[i] \in DigitRunes})
        IN  IF count = 14
            THEN /\ Len(requests) = 1
                 /\ frame.formattedCNPJ =
                        d[1] \o d[2] \o "." \o d[3] \o d[4] \o d[5] \o "."
                        \o d[6] \o d[7] \o d[8] \o "/" \o d[9] \o d[10] \o d[11] \o d[12]
                        \o "-" \o d[13] \o d[14]
                 /\ requests[1].url = cnpj_BaseURL \o "/" \o frame.formattedCNPJ
            ELSE /\ requests = << >>
                 /\ pc = "done"
                 /\ result = [env |-> Nil,
                              err |-> <<"invalid CNPJ: must have 14 digits, got "
                                        \o ToString(count)>>]

\* 12345678000190 written between other runes was formatted as 12.345.678/0001-90
C4_Witness ==
    /\ call.op = "cnpj.GetCNPJ"
    /\ Len(call.args.cnpj) > 14
    /\ SelectSeq(call.args.cnpj, LAMBDA r : r \in DigitRunes)
           = <<"1", "2", "3", "4", "5", "6", "7", "8", "0", "0", "0", "1", "9", "0">>
    /\ requests # << >>
    /\ requests[1].url = "https://minhareceita.org/12.345.678/0001-90"

(* C5: GetIndicator asks for the documented series of every name of the table  *)
(* (selic 11, selic_monthly 4390, ipca 433, igpm 189, cdi 12); for any other    *)
(* name it fails, listing the valid names, and no request is issued.            *)
C5_IndicatorLookup ==
    call.op = "bcb.GetIndicator" =>
        LET indicator == call.args.indicator
            code == CASE indicator = "selic" -> "11"
                      [] indicator = "selic_monthly" -> "4390"
                      [] indicator = "ipca" -> "433"
                      [] indicator = "igpm" -> "189"
                      [] indicator = "cdi" -> "12"
                      [] OTHER -> ""
        IN  IF code # ""
            THEN /\ Len(requests) = 1
                 /\ \E n \in 1..30 :
                        requests[1].url =
                            "https://api.bcb.gov.br/dados/serie/bcdata.sgs." \o code
                            \o "/dados/ultimos/" \o ToString(n) \o "?formato=json"
            ELSE /\ pc = "done"
                 /\ requests = << >>
                 /\ response = Nil
                 /\ result = [env |-> Nil,
                              err |-> <<"unknown indicator: " \o indicator
                                        \o ". Available: selic, selic_monthly, ipca, igpm, cdi">>]

\* GetIndicator was called with "dollar" and failed without a request
C5_Witness ==
    /\ call.op = "bcb.GetIndicator"
    /\ call.args.indicator = "dollar"
    /\ pc = "done"
    /\ requests = << >>
    /\ result.err # Nil

\* The number of digit runes of a CNPJ argument
DigitCount(cnpj) == Cardinality({i \in DOMAIN cnpj : cnpj[i] \in DigitRunes})

\* The invocation's arguments fail a precondition of the adapter operation
FailsPrecondition ==
    \/ call.op = "cnpj.GetCNPJ" /\ DigitCount(call.args.cnpj) # 14
    \/ call.op = "transparencia.SearchServidores" /\ call.args.nome = ""
    \/ call.op = "transparencia.GetServidorRemuneracao" /\ call.args.cpf = ""

(* C6: GetCNPJ with a digit count other than 14, SearchServidores with an empty *)
(* nome and GetServidorRemuneracao with an empty cpf return a failure and no    *)
(* envelope, and no request has been created or sent.                           *)
C6_RejectedBeforeAnyRequest ==
    FailsPrecondition =>
        /\ pc = "done"
        /\ requests = << >>
        /\ response = Nil
        /\ result.env = Nil
        /\ result.err # Nil

\* SearchServidores was called with an empty nome and failed without a request
C6_Witness ==
    /\ call.op = "transparencia.SearchServidores"
    /\ call.args.nome = ""
    /\ pc = "done"
    /\ requests = << >>
    /\ result = [env |-> Nil, err |-> <<"nome is required">>]

(* C7: a tool call that omits a parameter its tool declares required ends in a  *)
(* tool error and no request is issued.                                         *)
C7_MissingRequiredParameterRejected ==
    (call.tool # "" /\ RequiredParameters(call.tool) \ DOMAIN call.toolArgs # {}) =>
        /\ pc = "done"
        /\ requests = << >>
        /\ reply # Nil
        /\ reply[1].isError

\* The parameters an operation's query string is built from, by their keys
SuppliedEmpty(key) ==
    \/ call.op = "pncp.SearchContracts" /\ key = "dataInicial" /\ call.args.startDate = ""
    \/ call.op = "pncp.SearchContracts" /\ key = "dataFinal" /\ call.args.endDate = ""
    \/ call.op \in PNCPSearches /\ key = "uf" /\ call.args.state = ""
    \/ call.op = "transparencia.SearchCEIS" /\ key = "cnpj" /\ call.args.cnpj = ""

(* C8: the query string of every PNCP and Transparencia request holds no        *)
(* parameter with an empty value: a parameter supplied empty is left out, and   *)
(* every parameter it holds appears once.                                       *)
C8_EmptyParametersOmitted ==
    (requests # << >> /\ requests[1].query # << >>) =>
        LET query == requests[1].query
        IN  /\ \A i \in DOMAIN query : query[i][2] # ""
            /\ \A key \in QueryKeys(requests[1]) : ~SuppliedEmpty(key)
            /\ \A i, j \in DOMAIN query : query[i][1] = query[j][1] => i = j

\* The failure the adapters report for a status they do not accept
APIError(status, body) == "API error (status " \o ToString(status) \o "): " \o body

\* The upstream has answered with a status outside 200 .. 299
AnsweredNon2xx ==
    /\ pc = "done"
    /\ response # Nil
    /\ response[1].kind = "http"
    /\ (response[1].status < 200 \/ response[1].status > 299)

(* C9, as claimed: in every operation of the five adapters an answer with a     *)
(* non-2xx status s and body b makes the operation fail with a failure that     *)
(* carries s and b.                                                             *)
C9_Non2xxCarriesStatusAndBody ==
    AnsweredNon2xx =>
        result = [env |-> Nil, err |-> <<APIError(response[1].status, response[1].body)>>]

(* C9, amended: in every operation of the five adapters an answer with a        *)
(* non-2xx status s and body b makes the operation fail with a failure that     *)
(* carries s and b, except GetCNPJ on status 404, whose failure is the "CNPJ    *)
(* not found" failure that names the formatted identifier.                      *)
C9_Non2xxCarriesStatusAndBodyExceptCNPJ404 ==
    AnsweredNon2xx =>
        IF call.op = "cnpj.GetCNPJ" /\ response[1].status = 404
        THEN result = [env |-> Nil, err |-> <<"CNPJ not found: " \o frame.formattedCNPJ>>]
        ELSE result = [env |-> Nil,
                       err |-> <<APIError(response[1].status, response[1].body)>>]

\* GetIndicator was answered 503 "maintenance" and failed with both in its failure
C9_Witness ==
    /\ call.op = "bcb.GetIndicator"
    /\ AnsweredNon2xx
    /\ response[1].status = 503
    /\ response[1].body = "maintenance"
    /\ result.err = <<"API error (status 503): maintenance">>

\* The "not found" failures of the CNPJ numbers of the model
NotFoundFailures ==
    {"CNPJ not found: 12.345.678/0001-90", "CNPJ not found: 00.000.000/0001-91"}

(* C10: GetCNPJ answered 404 fails with "CNPJ not found" and the formatted      *)
(* identifier, which is not the generic API error; answered any other status    *)
(* but 200 it fails with the generic API error; no other operation ever fails   *)
(* with the not-found failure.                                                  *)
C10_NotFoundIsDistinct ==
    /\ (call.op = "cnpj.GetCNPJ" /\ pc = "done" /\ response # Nil
            /\ response[1].kind = "http") =>
           LET status == response[1].status
               body == response[1].body
           IN  /\ status = 404 =>
                      /\ result.env = Nil
                      /\ result.err # Nil
                      /\ result.err[1] \in NotFoundFailures
                      /\ result.err[1] = "CNPJ not found: " \o frame.formattedCNPJ
                      /\ result.err[1] # APIError(status, body)
               /\ status \notin {200, 404} =>
                      result = [env |-> Nil, err |-> <<APIError(status, body)>>]
    /\ (call.op # "cnpj.GetCNPJ" /\ result.err # Nil) =>
           result.err[1] \notin NotFoundFailures

\* GetCNPJ of 12.345.678/0001-90 was answered 404 and failed with the not-found failure
C10_Witness ==
    /\ call.op = "cnpj.GetCNPJ"
    /\ pc = "done"
    /\ response # Nil
    /\ response[1].kind = "http"
    /\ response[1].status = 404
    /\ result.err = <<"CNPJ not found: 12.345.678/0001-90">>

\* The upstream has answered with a status in 200 .. 299
Answered2xx ==
    /\ pc = "done"
    /\ response # Nil
    /\ response[1].kind = "http"
    /\ response[1].status >= 200
    /\ response[1].status <= 299

(* C11: in every adapter operation an answer with any 2xx status is a success:  *)
(* with a decodable body the operation returns an envelope, with an undecodable *)
(* body it fails with the "parsing response" failure, and it never fails with   *)
(* the "API error (status ...)" failure.                                        *)
C11_Every2xxIsSuccess ==
    Answered2xx =>
        /\ result.err # Nil =>
               /\ result.env = Nil
               /\ result.err[1] = "parsing response: json: cannot unmarshal"
               /\ result.err[1] # APIError(response[1].status, response[1].body)
        /\ result.err = Nil => result.env # Nil

\* The arguments of the invocation in progress pass the operation's validation
PassesValidation ==
    /\ call.op # ""
    /\ ~FailsPrecondition
    /\ call.op = "bcb.GetIndicator" =>
           call.args.indicator \in {"selic", "selic_monthly", "ipca", "igpm", "cdi"}

PopulationReceived ==
    /\ call.op = "ibge.GetPopulation"
    /\ response # Nil
    /\ response[1].kind = "http"
    /\ response[1].status = 200
    /\ \/ response[1].body \in PopulationBodies
       \/ \E n \in 0..MaxItems : response[1].body = ArrayBody(n)

(* C13: GetPopulation never fails on a received body that is a JSON array of    *)
(* objects: it returns an envelope whose data is empty when a part of the       *)
(* nested shape is absent or of another type, and holds one (location, year,    *)
(* value) tuple per year of the series when the shape is present.               *)
C13_PopulationNeverFails ==
    PopulationReceived =>
        /\ pc = "done"
        /\ result.err = Nil
        /\ result.env # Nil
        /\ LET v == ParsePopulation(response[1].body)
               data == result.env[1].Data
           IN  IF v = PopulationShape(v.years)
               THEN /\ Len(data) = v.years
                    /\ {data[i] : i \in DOMAIN data}
                           = {[Location |-> "Brasil", Year |-> PopulationYear(i),
                               Population |-> PopulationValue(i)] : i \in 1..v.years}
               ELSE data = << >>

(* C14: GetServidorRemuneracao with an empty mesAno asks for the calendar month *)
(* before the current one, as MM/YYYY, whatever the day of the month; the year  *)
(* is one less only when the current month is January.                          *)
C14_DefaultIsPreviousMonth ==
    (call.op = "transparencia.GetServidorRemuneracao"
         /\ call.args.cpf # "" /\ call.args.mesAno = "") =>
        LET now == call.args.now
            month == IF now.month = 1 THEN 12 ELSE now.month - 1
            year == IF now.month = 1 THEN now.year - 1 ELSE now.year
            MM == (IF month < 10 THEN "0" ELSE "") \o ToString(month)
        IN  /\ Len(requests) = 1
            /\ QueryValues(requests[1], "mesAno") = {MM \o "%2F" \o ToString(year)}
            /\ Succeeded => result.env[1].MesAno = MM \o "/" \o ToString(year)

(* C15: GetExchangeRate asks for currency "USD" when its currency argument is   *)
(* empty and for the current date as MM-DD-YYYY when its date argument is       *)
(* empty, and for the arguments themselves otherwise; the envelope's Currency   *)
(* and Date are the values placed in the request.                               *)
C15_ExchangeRateDefaults ==
    call.op = "bcb.GetExchangeRate" =>
        LET now == call.args.now
            DD(n) == (IF n < 10 THEN "0" ELSE "") \o ToString(n)
            currency == IF call.args.currency = "" THEN "USD" ELSE call.args.currency
            date == IF call.args.date = ""
                    THEN DD(now.month) \o "-" \o DD(now.day) \o "-" \o ToString(now.year)
                    ELSE call.args.date
        IN  /\ Len(requests) = 1
            /\ requests[1].url =
                   "https://olinda.bcb.gov.br/olinda/servico"
                   \o "/PTAX/versao/v1/odata/CotacaoMoedaDia(moeda=@moeda,dataCotacao=@dataCotacao)"
                   \o "?@moeda='" \o currency \o "'&@dataCotacao='" \o date \o "'&$format=json"
            /\ Succeeded =>
                   /\ result.env[1].Currency = currency
                   /\ result.env[1].Date = date

\* GetExchangeRate was called with no currency and no date on 2024-06-09 and succeeded
C15_Witness ==
    /\ call.op = "bcb.GetExchangeRate"
    /\ call.args.currency = ""
    /\ call.args.date = ""
    /\ call.args.now = [year |-> 2024, month |-> 6, day |-> 9]
    /\ Succeeded
    /\ result.env[1].Currency = "USD"
    /\ result.env[1].Date = "06-09-2024"

(* C16: an empty optional filter takes its documented default and a given one   *)
(* passes unchanged: Transparencia SearchContracts asks for organization 36000  *)
(* when orgaoCode is empty, SearchConvenios for state MG when uf is empty, PNCP *)
(* SearchContracts for modality 6 when modalityCode is 0; the envelope of       *)
(* SearchContracts carries the effective organization code and its name from    *)
(* the table of known organizations, or "Orgao Desconhecido".                   *)
C16_OptionalFilterDefaults ==
    /\ call.op = "transparencia.SearchContracts" =>
           LET code == IF call.args.orgaoCode = "" THEN "36000" ELSE call.args.orgaoCode
               name == CASE code = "36000" -> "Ministério da Saúde"
                         [] code = "26000" -> "Ministério da Educação"
                         [] code = "25000" -> "Ministério da Economia"
                         [] code = "30000" -> "Ministério da Justiça"
                         [] code = "52000" -> "Ministério da Defesa"
                         [] code = "35000" -> "Ministério das Relações Exteriores"
                         [] code = "44000" -> "Ministério do Meio Ambiente"
                         [] OTHER -> "Orgao Desconhecido"
           IN  /\ QueryValues(requests[1], "codigoOrgao") = {code}
               /\ Succeeded => /\ result.env[1].OrgaoCode = code
                               /\ result.env[1].OrgaoName = name
    /\ call.op = "transparencia.SearchConvenios" =>
           LET uf == IF call.args.uf = "" THEN "MG" ELSE call.args.uf
           IN  /\ QueryValues(requests[1], "uf") = {uf}
               /\ Succeeded => result.env[1].UF = uf
    /\ call.op = "pncp.SearchContracts" =>
           LET modality == IF call.args.modalityCode = 0 THEN 6 ELSE call.args.modalityCode
           IN  QueryValues(requests[1], "codigoModalidadeContratacao") = {ToString(modality)}

\* SearchContracts was called for the unknown organization 99999 and succeeded
C16_Witness ==
    /\ call.op = "transparencia.SearchContracts"
    /\ call.args.orgaoCode = "99999"
    /\ Succeeded
    /\ result.env[1].OrgaoCode = "99999"
    /\ result.env[1].OrgaoName = "Orgao Desconhecido"

\* The list an operation's envelope returns
ReturnedList ==
    LET env == result.env[1]
    IN  CASE call.op \in {"bcb.GetIndicator", "bcb.GetSELIC", "bcb.GetIPCA"} -> env.Data
          [] call.op = "ibge.GetStates" -> env.States
          [] call.op = "ibge.GetMunicipalities" -> env.Municipalities
          [] call.op = "transparencia.SearchContracts" -> env.Contracts
          [] call.op = "transparencia.SearchServidores" -> env.Servidores
          [] call.op = "transparencia.SearchConvenios" -> env.Convenios
          [] call.op = "transparencia.SearchCEIS" -> env.Empresas
          [] call.op = "pncp.SearchPriceRegistrations" -> env.Registrations
          [] call.op = "pncp.SearchContracts" -> env.Contracts

(* C17: the Total of a list-valued envelope is the number of items decoded from *)
(* the body, which is the length of the returned list (GetIndicator, GetStates, *)
(* GetMunicipalities, the four Transparencia searches, SearchPriceRegistrations *)
(* ); the Total of PNCP SearchContracts is the body's "totalRegistros", also    *)
(* when the returned list has another length.                                   *)
C17_TotalCountsItems ==
    Succeeded =>
        LET body == response[1].body
        IN  /\ call.op \in {"bcb.GetIndicator", "bcb.GetSELIC", "bcb.GetIPCA",
                            "ibge.GetStates", "ibge.GetMunicipalities",
                            "transparencia.SearchContracts",
                            "transparencia.SearchServidores",
                            "transparencia.SearchConvenios",
                            "transparencia.SearchCEIS"} =>
                   \E n \in 0..MaxItems :
                       /\ body = ArrayBody(n)
                       /\ Len(ReturnedList) = n
                       /\ result.env[1].Total = n
            /\ call.op = "pncp.SearchPriceRegistrations" =>
                   /\ body = "{\"data\":[{\"id\":1}],\"totalRegistros\":7,\"source\":\"upstream\"}"
                   /\ Len(ReturnedList) = 1
                   /\ result.env[1].Total = 1
            /\ call.op = "pncp.SearchContracts" =>
                   /\ body = "{\"data\":[{\"id\":1}],\"totalRegistros\":7,\"source\":\"upstream\"}"
                   /\ Len(ReturnedList) = 1
                   /\ result.env[1].Total = 7

\* PNCP SearchContracts returned one contract and the upstream's total of 7
C17_Witness ==
    /\ call.op = "pncp.SearchContracts"
    /\ Succeeded
    /\ Len(result.env[1].Contracts) = 1
    /\ result.env[1].Total = 7

(* C18: the envelope of every successful operation carries the source tag of    *)
(* its adapter, whatever the body holds: "bcb_api", "ibge_api",                 *)
(* "portal_transparencia_api", "pncp_api", and "minhareceita_api" for GetCNPJ,  *)
(* where a "source" field of the body does not reach the result.                *)
C18_SourceTagIsLiteral ==
    Succeeded =>
        result.env[1].Source =
            CASE call.op \in {"bcb.GetIndicator", "bcb.GetSELIC", "bcb.GetIPCA",
                              "bcb.GetExchangeRate", "bcb.GetPIXStats"} -> "bcb_api"
              [] call.op \in {"ibge.GetStates", "ibge.GetMunicipalities",
                              "ibge.GetPopulation"} -> "ibge_api"
              [] call.op \in {"transparencia.SearchContracts",
                              "transparencia.SearchServidores",
                              "transparencia.GetServidorRemuneracao",
                              "transparencia.SearchConvenios",
                              "transparencia.SearchCEIS"} -> "portal_transparencia_api"
              [] call.op \in {"pncp.SearchContracts",
                              "pncp.SearchPriceRegistrations"} -> "pncp_api"
              [] call.op = "cnpj.GetCNPJ" -> "minhareceita_api"

\* GetCNPJ decoded a body with "source":"upstream" and returned its own tag
C18_Witness ==
    /\ call.op = "cnpj.GetCNPJ"
    /\ Succeeded
    /\ response[1].body = "{\"data\":[{\"id\":1}],\"totalRegistros\":7,\"source\":\"upstream\"}"
    /\ result.env[1].Source = "minhareceita_api"

\* The operations of the Portal da Transparencia adapter
TransparenciaOperations ==
    {"transparencia.SearchContracts", "transparencia.SearchServidores",
     "transparencia.GetServidorRemuneracao", "transparencia.SearchConvenios",
     "transparencia.SearchCEIS"}

(* C19: the API key reaches only the Portal da Transparencia adapter.  The      *)
(* requests and the result of an IBGE, CNPJ, BCB or PNCP operation are those    *)
(* the same call gives under every configured key, set or absent, and never     *)
(* carry the "chave-api-dados" header; a Transparencia request carries the      *)
(* header with the configured key when the key is not empty and has no such     *)
(* header when it is, and is issued in both cases.                              *)
C19_KeyReachesOnlyTransparencia ==
    /\ (call.op # "" /\ call.op \notin TransparenciaOperations) =>
           /\ \A k \in APIKeys :
                  LET start == Invoke(transparencia_NewClient(k), call.op, call.args)
                  IN  /\ requests = IF start.err = Nil THEN <<start.req[1]>> ELSE << >>
                      /\ (pc = "done" /\ response # Nil /\ response[1].kind = "http"
                              /\ response[1].body \in Bodies) =>
                             result = Return(call.op, start.frame,
                                             response[1].status, response[1].body)
           /\ \A n \in DOMAIN requests :
                  "chave-api-dados" \notin DOMAIN requests[n].header
    /\ (call.op \in TransparenciaOperations /\ PassesValidation) =>
           /\ Len(requests) = 1
           /\ apiKey # "" =>
                  /\ "chave-api-dados" \in DOMAIN requests[1].header
                  /\ requests[1].header["chave-api-dados"] = apiKey
           /\ apiKey = "" => DOMAIN requests[1].header = {"Accept", "User-Agent"}

\* With no key configured SearchContracts was issued without the key header and answered
C19_Witness ==
    /\ apiKey = ""
    /\ call.op = "transparencia.SearchContracts"
    /\ pc = "done"
    /\ response # Nil
    /\ Len(requests) = 1
    /\ "chave-api-dados" \notin DOMAIN requests[1].header

\* What caller i's call gives when it runs alone: its request and its result
\* follow from its own arguments and its own response
OwnOutcome(slot) ==
    slot.pc # "idle" =>
        LET start == Invoke(transparencia_NewClient(apiKey), slot.op, slot.args)
        IN  IF start.err # Nil
            THEN /\ slot.pc = "done"
                 /\ slot.requests = << >>
                 /\ slot.result = Failure(start.err[1])
            ELSE /\ slot.requests = <<start.req[1]>>
                 /\ slot.frame = start.frame
                 /\ slot.pc = "waiting" => slot.result = NoResult
                 /\ (slot.pc = "done" /\ slot.response[1].kind = "http") =>
                        slot.result = Return(slot.op, start.frame,
                                             slot.response[1].status,
                                             slot.response[1].body)
                 /\ (slot.pc = "done" /\ slot.response[1].kind = "transport") =>
                        slot.result = Failure("executing request: " \o slot.response[1].cause)

(* C20: concurrent calls on the same clients do not interfere.  In every step   *)
(* of every interleaving at most one call changes, the step writes nothing of   *)
(* any other call and nothing of the clients, and afterwards the request and    *)
(* the outcome of every call in progress are the ones the call gives alone,     *)
(* from its own arguments and its own response.                                 *)
C20_CallsDoNotInterfere ==
    [][ /\ apiKey' = apiKey
        /\ \A i \in Callers :
               /\ inflight'[i] # inflight[i] =>
                      \A j \in Callers \ {i} : inflight'[j] = inflight[j]
               /\ OwnOutcome(inflight'[i]) ]_vars

\* Two callers are inside different operations and one has its envelope
C20_Witness ==
    /\ inflight[1].op = "bcb.GetIndicator"
    /\ inflight[1].pc = "done"
    /\ inflight[1].result.env # Nil
    /\ inflight[2].op = "transparencia.SearchCEIS"
    /\ inflight[2].pc = "waiting"
    /\ Len(inflight[2].requests) = 1

\* The errors Do and ReadAll give when the caller's context has ended
ContextEnded == {"context canceled", "context deadline exceeded"}

\* What the failure of a call says when Do (kind "transport") or ReadAll (kind
\* "read") has failed for cause
TransportFailure(kind, cause) ==
    (IF kind = "transport" THEN "executing request: " ELSE "reading response: ") \o cause

(* C21: a call whose context is cancelled or runs out before the response has   *)
(* been read to its end fails with the cancellation as a transport failure,     *)
(* returns no envelope (a nil pointer, not a partly filled one) and leaves the  *)
(* client's state, the API key, as it was; a tool caller gets an error result.  *)
C21_CancelledCallFailsCleanly ==
    [][ ( /\ pc = "waiting"
          /\ response' # Nil
          /\ response'[1].kind \in {"transport", "read"}
          /\ response'[1].cause \in ContextEnded )
        => /\ pc' = "done"
           /\ result'.env = Nil
           /\ result'.err = Some(TransportFailure(response'[1].kind, response'[1].cause))
           /\ apiKey' = apiKey
           /\ requests' = requests
           /\ call'.tool # "" => reply' # Nil /\ reply'[1].isError ]_vars

\* A tool call whose context was cancelled while the body was being read has
\* ended with the cancellation and without an envelope
C21_Witness ==
    /\ pc = "done"
    /\ call.tool = "lookup_cnpj"
    /\ response # Nil
    /\ response[1].kind = "read"
    /\ response[1].cause = "context canceled"
    /\ result = Failure("reading response: context canceled")
    /\ reply = Some(NewToolResultError("Error: reading response: context canceled"))

(* C22: the lookup tables are never changed, neither by the adapter operations  *)
(* nor by a caller through a value an operation returned: in every state        *)
(* ListModalities gives exactly the eight fixed name-to-code pairs, the table   *)
(* of known organizations is the fixed one, and a ListOrgaos result the         *)
(* caller has not touched holds one codigo/nome entry for each of them.         *)
C22_TablesNeverChange ==
    /\ tables.Modalities = Modalities
    /\ tables.KnownOrgaos = KnownOrgaos
    /\ (held # Nil /\ held[1].op = "transparencia.ListOrgaos"
            /\ \A element \in held[1].orgaos : element.nome # "")
        => held[1].orgaos = {[nome |-> KnownOrgaos[code], codigo |-> code] :
                                code \in DOMAIN KnownOrgaos}

(* C23: the server registers exactly the 17 tools of the README under the       *)
(* README's names: the registered names are the documented ones, and every      *)
(* tool the server runs is a documented one.                                    *)
C23_RegisteredToolsAreTheDocumentedOnes ==
    LET documented ==
            { "search_contracts", "search_servidores", "get_remuneracao",
              "search_convenios", "search_ceis", "list_orgaos",
              "ibge_states", "ibge_municipalities", "ibge_population",
              "cnpj_lookup",
              "bcb_selic", "bcb_ipca", "bcb_exchange_rate", "bcb_indicator",
              "pncp_contracts", "pncp_price_registrations", "pncp_modalities" }
    IN  /\ Cardinality(documented) = 17
        /\ RegisteredTools = documented
        /\ call.tool # "" => call.tool \in documented

\* The indicator an operation of the SGS series asks for
IndicatorAsked ==
    CASE call.op = "bcb.GetSELIC" -> "selic"
      [] call.op = "bcb.GetIPCA" -> "ipca"
      [] OTHER -> call.args.indicator

(* C24: the number of data points asked of BCB, the N of "ultimos/N", is        *)
(* always positive: GetIndicator (and GetSELIC, GetIPCA through it) sends 30    *)
(* for every lastN <= 0 and lastN itself for every positive lastN; a tool call  *)
(* without last_n hands the adapter 30 (bcb_selic, bcb_indicator) or 12         *)
(* (bcb_ipca).                                                                  *)
C24_LastNAlwaysPositive ==
    /\ (call.op \in {"bcb.GetIndicator", "bcb.GetSELIC", "bcb.GetIPCA"} /\ requests # << >>)
       => LET sent == IF call.args.lastN <= 0 THEN 30 ELSE call.args.lastN
          IN  /\ sent > 0
              /\ Len(requests) = 1
              /\ requests[1].url =
                     SGSURL \o "." \o FormatInt(SeriesCodes[IndicatorAsked])
                     \o "/dados/ultimos/" \o FormatInt(sent) \o "?formato=json"
    /\ (call.tool \in {"bcb_selic", "bcb_indicator", "bcb_ipca"} /\ call.op # ""
            /\ "last_n" \notin DOMAIN call.toolArgs)
       => call.args.lastN = IF call.tool = "bcb_ipca" THEN 12 ELSE 30

\* bcb_ipca was called without last_n, the request asked for the last 12 values
\* and the envelope is back
C24_Witness ==
    /\ call.tool = "bcb_ipca"
    /\ "last_n" \notin DOMAIN call.toolArgs
    /\ pc = "done"
    /\ result.env # Nil
    /\ requests[1].url = SGSURL \o ".433/dados/ultimos/12?formato=json"

(* C25: every adapter invocation eventually completes with an envelope or with  *)
(* a failure, also when the upstream never answers or never ends its body: the  *)
(* client's timeout ends the wait, so a call that is waiting for the upstream   *)
(* leads to a returned envelope or a returned failure.                          *)
C25_EveryCallCompletes ==
    (pc = "waiting") ~> (pc = "done" /\ (result.env # Nil \/ result.err # Nil))

\* The adapter operation of the invocation has returned
OperationReturned == pc = "done" /\ call.op # ""

\* The returned pair is (nil, err) or (envelope, nil)
ExactlyOne(res) == (res.env = Nil) # (res.err = Nil)

C27_HandlerPassesFailureOn ==
    (call.tool # "" /\ OperationReturned)
    => /\ reply # Nil
       /\ result.err # Nil =>
             /\ reply[1].isError
             /\ reply[1].text = "Error: " \o result.err[1]
       /\ result.env # Nil =>
             /\ ~reply[1].isError
             /\ reply[1].text = ToString(result.env[1])

\* search_ceis was called, the upstream answered 503 and the tool result is the
\* adapter's message
C27_Witness ==
    /\ call.tool = "search_ceis"
    /\ OperationReturned
    /\ result.err = Some("API error (status 503): maintenance")
    /\ reply = Some(NewToolResultError("Error: API error (status 503): maintenance"))

\* The digit runes of a CNPJ argument, in their order
DigitsOf(cnpj) == SelectSeq(cnpj, LAMBDA r : r \in DigitRunes)

(* C28: formatCNPJ is idempotent and loses no digit.  For the argument x of     *)
(* every GetCNPJ call on which formatCNPJ succeeds, formatting the result once  *)
(* more succeeds and gives the same result, the digits of the result are the    *)
(* 14 digits of x in their order, and every other argument with the same        *)
(* digits gives the same result; the request carries that result.               *)
C28_FormatCNPJIdempotent ==
    call.op = "cnpj.GetCNPJ" =>
        LET x == call.args.cnpj
            once == formatCNPJ(x)
            twice == formatCNPJ(once.val)
        IN  once.err = Nil =>
              /\ twice.err = Nil
              /\ twice.val = once.val
              /\ Len(DigitsOf(x)) = 14
              /\ DigitsOf(once.val) = DigitsOf(x)
              /\ \A y \in CNPJInputs :
                     DigitsOf(y) = DigitsOf(x) => formatCNPJ(y) = once
              /\ requests # << >>
              /\ requests[1].url = cnpj_BaseURL \o "/" \o Join(twice.val)

\* GetCNPJ was called with an argument that is not in the canonical form, the
\* request carries the canonical form, and formatting that form gives it again
C28_Witness ==
    /\ call.op = "cnpj.GetCNPJ"
    /\ call.tool = ""
    /\ requests # << >>
    /\ Len(call.args.cnpj) > 18
    /\ formatCNPJ(call.args.cnpj).val # call.args.cnpj
    /\ formatCNPJ(formatCNPJ(call.args.cnpj).val).val = formatCNPJ(call.args.cnpj).val
    /\ requests[1].url = cnpj_BaseURL \o "/" \o "00.000.000/0001-91"

\* The percent-encoding of an argument value of the model: the values with a
\* character that delimits a part of a URL, and the others, which need none
Escaped(v) ==
    CASE v = "1?x=1" -> "1%3Fx=1"
      [] v = "33?x=1" -> "33%3Fx=1"
      [] v = "1]&view=x" -> "1%5D%26view%3Dx"
      [] v = "EUR'&x='1" -> "EUR%27%26x%3D%271"
      [] OTHER -> v

\* The query keys an operation sets
KeysSet(op) ==
    CASE op = "pncp.SearchContracts" ->
            {"dataInicial", "dataFinal", "codigoModalidadeContratacao",
             "tamanhoPagina", "pagina", "uf"}
      [] op = "pncp.SearchPriceRegistrations" -> {"tamanhoPagina", "pagina", "uf"}
      [] op = "transparencia.SearchContracts" -> {"codigoOrgao", "pagina", "tamanhoPagina"}
      [] op = "transparencia.SearchServidores" -> {"nome", "pagina", "tamanhoPagina"}
      [] op = "transparencia.GetServidorRemuneracao" -> {"mesAno"}
      [] op = "transparencia.SearchConvenios" -> {"uf", "pagina", "tamanhoPagina"}
      [] op = "transparencia.SearchCEIS" -> {"cnpj", "pagina", "tamanhoPagina"}
      [] OTHER -> {}

\* The fixed endpoint of an operation whose query is encoded from url.Values; the
\* CPF is a segment of GetServidorRemuneracao's path
Endpoint(op, args) ==
    CASE op = "pncp.SearchContracts" -> pncp_BaseURL \o "/contratacoes/publicacao"
      [] op = "pncp.SearchPriceRegistrations" -> pncp_BaseURL \o "/atas-registro-preco"
      [] op = "transparencia.SearchContracts" -> transparencia_BaseURL \o "/contratos"
      [] op = "transparencia.SearchServidores" -> transparencia_BaseURL \o "/servidores"
      [] op = "transparencia.GetServidorRemuneracao" ->
            transparencia_BaseURL \o "/servidores/" \o Escaped(args.cpf) \o "/remuneracao"
      [] op = "transparencia.SearchConvenios" -> transparencia_BaseURL \o "/convenios"
      [] op = "transparencia.SearchCEIS" -> transparencia_BaseURL \o "/ceis"

(* C29: no parameter value changes the structure of the outbound request.  The  *)
(* request of every operation goes to the operation's fixed endpoint and its    *)
(* query holds the operation's own parameters only, whatever the value holds    *)
(* ('&', '=', '?', '/', ']', a quote, a space): a value reaches the URL         *)
(* percent-encoded, in the query (Transparencia, PNCP, GetExchangeRate's        *)
(* currency and date, GetPopulation's locationID) and in the path               *)
(* (GetServidorRemuneracao's cpf, GetMunicipalities' stateID).                  *)
C29_ValuesCannotChangeRequest ==
    requests # << >> =>
        LET req == requests[1]
            args == call.args
        IN  CASE call.op \in PNCPSearches \cup TransparenciaOperations ->
                    /\ req.url = Endpoint(call.op, args)
                    /\ QueryKeys(req) \subseteq KeysSet(call.op)
                    /\ \A i \in DOMAIN req.query :
                           req.query[i][2] \notin {"a&b=c", "ana lima", "01/2024"}
              [] call.op = "ibge.GetMunicipalities" /\ args.stateID # "" ->
                    req.url = LocalidadesURL \o "/estados/" \o Escaped(args.stateID)
                              \o "/municipios?orderBy=nome"
              [] call.op = "ibge.GetPopulation" /\ args.locationID # "" ->
                    req.url = AgregadosURL
                              \o "/6579/periodos/-6/variaveis/9324?localidades=N6["
                              \o Escaped(args.locationID) \o "]"
              [] call.op = "bcb.GetExchangeRate" ->
                    req.url = OlindaURL
                        \o "/PTAX/versao/v1/odata/CotacaoMoedaDia(moeda=@moeda,dataCotacao=@dataCotacao)?@moeda='"
                        \o Escaped(frame.currency) \o "'&@dataCotacao='"
                        \o Escaped(frame.date) \o "'&$format=json"
              [] OTHER -> TRUE

====
